---------------------------- MODULE Spec2Model ----------------------------
(***************************************************************************)
(* A model of the image layout code of astrbot_plugin_steam_info (draw.py) *)
(* as state machines: the roster layout (draw_friends_status) on the       *)
(* records of simplize_steam_player_data (utils.py), the card, the         *)
(* biography wrapping loop, the palette and the title panel of             *)
(* draw_player_status, the title block of draw_game_info, the palette      *)
(* extraction of get_brightest_and_darkest_color, recolor_image, and       *)
(* create_progress_bar with the gradient constructors; and of the plugin   *)
(* itself: get_steam_id and get_steam_users_info (steam.py), the command   *)
(* handlers, the scheduler and the broadcast of SteamInfoPlugin (main.py), *)
(* and SteamInfoData.compare (data_source.py).                             *)
(*                                                                         *)
(* Text is modelled as a sequence of Unicode code points, so that Python's *)
(* string comparison is the lexicographic order on sequences.              *)
(***************************************************************************)
EXTENDS Integers, Sequences, FiniteSets, TLC

VARIABLES
    \* draw_friends_status
    roster_pc,      \* "players": before the records are derived; "call":
                    \* before the call; "done": after it returned
    players,        \* the players simplize_steam_player_data is given
    input,          \* the records as the caller passed them (kept for reference)
    data,           \* the caller's list object, which the function sorts in place
    gaming_data,
    online_data,
    offline_data,
    status_images,  \* the section images appended, in order
    height,         \* the canvas height computed
    separators,     \* the separator rectangles drawn, in order
    \* the biography loop of draw_player_status
    bio_pc,         \* "loop": in the for loop; "break": left by break;
                    \* "end": left at the end of the text
    player_description,
    idx,            \* the number of characters the loop has taken
    line,
    line_width,
    offset,
    drawn,          \* the lines drawn, in order
    \* get_brightest_and_darkest_color
    color_pc,       \* "call": in a call; "returned"; "RecursionError"
    image,          \* the pixels of image.convert("HSV"), row by row
    call_args,      \* the thresholds of the outermost call
    saturation_threshold,
    hue_difference_threshold,
    depth,          \* the number of calls on the stack below this one
    brightest_pixel,
    darkest_pixel,
    \* draw_player_status: the card, line 401, and the title panel,
    \* lines 432-452
    card_pc,        \* "games": in the loop over player_games; "composed":
                    \* after line 450; "done": returned; "ZeroDivisionError"
    player_bg,      \* the size of the background photo
    crop_box,       \* the box of the crop of line 401
    bg,             \* the size of the card
    overlay_at,     \* where the card was pasted on the photo
    returned,       \* the size of the image returned
    player_games,   \* the title entries; an entry's achievements are
                    \* modelled by their number
    game_info,      \* what the last call of draw_game_info returned
    game_images,
    bg_game,        \* the dark panel pasted onto the card
    pasted,         \* where the title blocks were pasted, in order
    \* create_progress_bar and the two gradient constructors
    bar_pc,         \* "call": before the call; "returned"; "ValueError"
    bar_call,       \* the function called and its arguments
    bar_result,     \* the image returned
    \* recolor_image
    recolor_pc,     \* "call": before the call; "returned"
    recolor_call,   \* the size of the image, and rows and cols
    pieces,         \* the boxes split_image cropped, in order
    blobs,          \* the boxes the blobs were pasted in, in order
    \* draw_player_status: the palette, lines 423-429
    palette_pc,     \* "extracted": after line 423; "adjusted": after line
                    \* 425; "brightest": after line 427; "done": after 429
    extracted,      \* the pair get_brightest_and_darkest_color returned
    brightest_color,
    darkest_color,
    \* get_steam_id
    id_pc,          \* "call": before the call; "returned"; "again": after the
                    \* function was applied to its own result; "ValueError"
    steam_id_or_steam_friends_code,
    id_result,      \* what the call returned
    id_again,       \* what the call on the result returned
    \* SteamInfoPlugin: the binding table and its commands
    bind_data,      \* parent_id -> the users bound there, in insertion order
    bind_event,     \* the command handled last, and how it ended
    \* SteamInfoPlugin: steamenable, steamdisable and broadcast_steam_info
    disable_parent_data,    \* the keys of the dict
    parent_data,    \* the groups that have an avatar and a name stored
    steam_broadcast_type,
    last_toggle,    \* parent_id -> the steamenable or steamdisable handled
                    \* last there, "none" before the first
    broadcast_event,    \* the handler that ran last, and how it ended
    \* SteamInfoPlugin: one cycle of schedule_update
    sched_pc,       \* "update": before update_steam_info; "fetched": at the
                    \* await of line 165; "loop": in the for loop of line
                    \* 138; "sleep": at line 145
    all_steam_ids,
    steam_response,
    steam_info_data,
    old_players_dict,
    broadcasts,     \* the calls of broadcast_steam_info of the cycle
    \* SteamInfoPlugin.steam_info
    info_pc,        \* "command": before the handler; "render": at line
                    \* 286; "replied": returned after a reply;
                    \* "UnboundLocalError"; "ValueError"
    info_event,     \* the group, the sender and the argument text
    steam_id,       \* the local of the handler, as a tuple of zero or one
    info_reply,
    \* SteamInfoData.compare
    compare_pc,     \* "call": before the call; "returned"
    old_players,
    new_players,
    changes,
    \* get_steam_users_info
    fetch_pc,       \* "call": before a call; "keys": in the loop over the
                    \* keys; "returned"
    steam_ids,      \* the list of the outermost call
    steam_api_key,
    batch_at,       \* the i of line 40
    key_at,         \* how many keys the call in progress has tried
    requests,       \* the requests made, in order, with their outcomes
    batch_results,  \* what the calls for the batches returned, in order
    fetch_result    \* what the outermost call returned

roster_vars == <<roster_pc, players, input, data, gaming_data, online_data, offline_data,
                 status_images, height, separators>>

----------------------------------------------------------------------------
bio_vars == <<bio_pc, player_description, idx, line, line_width, offset, drawn>>

color_vars == <<color_pc, image, call_args, saturation_threshold,
                hue_difference_threshold, depth, brightest_pixel, darkest_pixel>>

card_vars == <<card_pc, player_bg, crop_box, bg, overlay_at, returned,
               player_games, game_info, game_images, bg_game, pasted>>

bar_vars == <<bar_pc, bar_call, bar_result>>

recolor_vars == <<recolor_pc, recolor_call, pieces, blobs>>

palette_vars == <<palette_pc, extracted, brightest_color, darkest_color>>

draw_vars == <<roster_vars, bio_vars, color_vars, card_vars, bar_vars,
               recolor_vars, palette_vars>>

steamid_vars == <<id_pc, steam_id_or_steam_friends_code, id_result, id_again>>

table_vars == <<bind_data>>

bind_vars == <<bind_event>>

broadcast_vars == <<disable_parent_data, parent_data, steam_broadcast_type,
                    last_toggle, broadcast_event>>

sched_vars == <<sched_pc, all_steam_ids, steam_response, steam_info_data,
                old_players_dict, broadcasts>>

info_vars == <<info_pc, info_event, steam_id, info_reply>>

compare_vars == <<compare_pc, old_players, new_players, changes>>

fetch_vars == <<fetch_pc, steam_ids, steam_api_key, batch_at, key_at,
                requests, batch_results, fetch_result>>

plugin_vars == <<steamid_vars, table_vars, bind_vars, broadcast_vars,
                 sched_vars, info_vars, compare_vars, fetch_vars>>

vars == <<roster_vars, bio_vars, color_vars, card_vars, bar_vars, recolor_vars,
          palette_vars, plugin_vars>>

\* what a step of one function leaves alone: the variables of the others
not_roster_vars == <<bio_vars, color_vars, card_vars, bar_vars,
                    recolor_vars, palette_vars, plugin_vars>>
not_bio_vars == <<roster_vars, color_vars, card_vars, bar_vars,
                    recolor_vars, palette_vars, plugin_vars>>
not_color_vars == <<roster_vars, bio_vars, card_vars, bar_vars,
                    recolor_vars, palette_vars, plugin_vars>>
not_card_vars == <<roster_vars, bio_vars, color_vars, bar_vars,
                    recolor_vars, palette_vars, plugin_vars>>
not_bar_vars == <<roster_vars, bio_vars, color_vars, card_vars, recolor_vars,
                  palette_vars, plugin_vars>>
not_recolor_vars == <<roster_vars, bio_vars, color_vars, card_vars, bar_vars,
                      palette_vars, plugin_vars>>
not_palette_vars == <<roster_vars, bio_vars, color_vars, card_vars, bar_vars,
                      recolor_vars, plugin_vars>>

\* what a step of the plugin leaves alone
not_steamid_vars == <<draw_vars, table_vars, bind_vars, broadcast_vars,
                      sched_vars, info_vars, compare_vars, fetch_vars>>
not_bind_vars == <<draw_vars, steamid_vars, broadcast_vars, sched_vars,
                   info_vars, compare_vars, fetch_vars>>
not_broadcast_vars == <<draw_vars, steamid_vars, table_vars, bind_vars,
                        sched_vars, info_vars, compare_vars, fetch_vars>>
not_sched_vars == <<draw_vars, steamid_vars, table_vars, bind_vars,
                    broadcast_vars, info_vars, compare_vars, fetch_vars>>
not_info_vars == <<draw_vars, steamid_vars, table_vars, bind_vars,
                   broadcast_vars, sched_vars, compare_vars, fetch_vars>>
not_compare_vars == <<draw_vars, steamid_vars, table_vars, bind_vars,
                      broadcast_vars, sched_vars, info_vars, fetch_vars>>
not_fetch_vars == <<draw_vars, steamid_vars, table_vars, bind_vars,
                    broadcast_vars, sched_vars, info_vars, compare_vars>>

----------------------------------------------------------------------------
(* Bounds of the model *)

\* the longest roster passed to draw_friends_status
MaxRoster == 3

\* the longest list passed to a section renderer called on its own
MaxSection == 2

\* the longest list of players whose records are derived
MaxPlayers == 2

\* the longest biography
MaxBio == 6

\* the longest list of title entries
MaxGames == 2

\* the longest list of achievements of a title entry
MaxAchievements == 7

\* the number of runs of equal pixels an image is made of
MaxRuns == 3

\* the depth of recursion at which the interpreter raises RecursionError
\* (sys.getrecursionlimit() is 1000 by default)
RecursionLimit == 14

\* the widest progress bar above the narrowest one that has a fill
MaxBarExtra == 3

\* the greatest numerator and denominator of a progress
MaxProgress == 4

\* the greatest side passed to a gradient constructor on its own
MaxGradientSide == 2

\* the greatest side of the small images given to recolor_image
MaxSide == 6

\* the greatest number of rows and of columns these are split in
MaxGrid == 2

\* the longest argument of get_steam_id, the arguments at STEAM_ID_OFFSET
\* apart
MaxIdLen == 2

\* the longest list of players given to compare
MaxCompared == 2

\* the longest list of ids given to get_steam_users_info: two batches and
\* one id more
MaxIds == 201

\* the longest list of API keys
MaxKeys == 2

----------------------------------------------------------------------------
(* Program constants *)

WIDTH == 400
PARENT_AVATAR_SIZE == 72
MEMBER_AVATAR_SIZE == 50
\* the height draw_parent_status resizes its canvas to
PARENT_STATUS_HEIGHT == 120
\* the height of the canvas of draw_friends_search
FRIENDS_SEARCH_HEIGHT == 50
\* the offset of the first member row in a section canvas
SECTION_HEADER == 64
\* the padding added to the height of a section canvas
SECTION_PADDING == 16

\* line 416: the width a biography line may reach
BIO_LINE_WIDTH == 640
\* line 419: the pitch of the biography lines
BIO_LINE_PITCH == 25
\* line 421: the number of biography lines
BIO_LINES == 4
\* line 417: where the first biography line is drawn
BIO_TOP == 132

\* line 332: the number of vivid pixels below which the call retries
MIN_VIVID_PIXELS == 10
\* line 333: by how much a retry lowers the saturation threshold
SATURATION_STEP == 10
\* line 328: the default of saturation_threshold
DEFAULT_SATURATION_THRESHOLD == 100
\* line 328: the default of hue_difference_threshold
DEFAULT_HUE_DIFFERENCE_THRESHOLD == 30

\* None, as the value of an achievement count (the counts are not negative)
NONE == -1
\* line 346: the width of a title block
GAME_INFO_WIDTH == 880
\* lines 346, 372: the height of a title block without its achievement strip
GAME_INFO_HEADER_HEIGHT == 110
\* lines 346, 373: the size of the achievement strip and the margin under it
STRIP_WIDTH == 860
STRIP_HEIGHT == 64
STRIP_MARGIN == 10
\* lines 383-387: the icon slots of the strip
ICON_SIZE == 48
ICON_GAP == 10
ICON_SLOTS == 6
\* line 388: the number of completed achievements above which the badge is
\* drawn, and line 390: what the badge subtracts from it
BADGE_ABOVE == 6
BADGE_SHOWN == 5
\* line 437: the size of the panel above the title blocks, and the gap
\* under each block
PANEL_WIDTH == 920
PANEL_HEADER == 106
PANEL_GAP == 26
\* line 440: where the panel is pasted
PANEL_LEFT == 20
PANEL_TOP == 272
\* line 441: the height of the gradient pasted over the top of the panel
PANEL_GRADIENT_HEIGHT == 50
\* line 447: where the first title block is pasted
BLOCKS_TOP == 350

\* line 401: the width of the card cut out of the background photo, and the
\* rows and columns it is split in
CARD_WIDTH == 960
RECOLOR_GRID == 10

\* steam.py lines 37-41: the greatest number of ids of one request
BATCH_SIZE == 100

\* lines 424-425: by how much the brightest colour is darkened and the
\* darkest one lightened
PALETTE_SHIFT == 30
\* lines 426, 428: the alpha given to both colours
PALETTE_ALPHA == 128
\* lines 427, 429: the offset given to random_color_offset
JITTER == 20

\* line 468: the default size of a progress bar
BAR_WIDTH == 186
BAR_HEIGHT == 16
\* line 475: what the fill is narrower and lower than the bar by
FILL_INSET_X == 6
FILL_INSET_Y == 4
\* line 477: where the fill is pasted in the bar
FILL_LEFT == 3
FILL_TOP == 2

\* "在线"
LABEL_ONLINE == <<22312, 32447>>
\* "离开"
LABEL_AWAY == <<31163, 24320>>
\* "CS", a game name
GAME_CS == <<67, 83>>

PersonaStates == 0..6
Statuses == {LABEL_ONLINE, LABEL_AWAY, GAME_CS}

----------------------------------------------------------------------------
(* Helpers: Python's list operations *)

RECURSIVE Sum(_)
Sum(s) == IF s = <<>> THEN 0 ELSE Head(s) + Sum(Tail(s))

\* Python's < on str, and on the tuples that stand for sort keys: the
\* lexicographic order (of the code points)
StrLess(a, b) ==
    \E k \in 1..(Len(a) + 1) :
        /\ \A j \in 1..(k - 1) : j <= Len(b) /\ a[j] = b[j]
        /\ \/ k = Len(a) + 1 /\ Len(b) >= k
           \/ k <= Len(a) /\ k <= Len(b) /\ a[k] < b[k]

\* where a stable sort puts item i: after every item with a smaller key and
\* after the earlier items with an equal key (keys[j] is the key of item j)
StableRank(i, keys) ==
    1 + Cardinality({j \in 1..Len(keys) :
                        \/ StrLess(keys[j], keys[i])
                        \/ keys[j] = keys[i] /\ j < i})

\* list.sort(key=...): a stable sort of s by its keys
StableSort(s, keys) ==
    [k \in 1..Len(s) |-> s[CHOOSE i \in 1..Len(s) : StableRank(i, keys) = k]]

----------------------------------------------------------------------------
(* draw_friends_status and the three section renderers *)

\* a sort that breaks the ties of personastate by the status text
SortByPersonastate_ThenStatus(s) ==
    StableSort(s, [i \in 1..Len(s) |-> <<s[i].personastate>> \o s[i].status])

\* line 237: data.sort(key=lambda x: x["personastate"])
SortByPersonastate(s) ==
    StableSort(s, [i \in 1..Len(s) |-> <<s[i].personastate>>])

\* a renderer that draws the members in the order it is given them
SortByStatus_Unsorted(s) == s

\* line 176: data.sort(key=lambda x: x["status"])
SortByStatus(s) ==
    StableSort(s, [i \in 1..Len(s) |-> s[i].status])

\* a sort key that forgets the exception for Away
OnlineSortKey_NoAwayException(d) == d.personastate

\* line 252: the key of the sort of online_data
OnlineSortKey(d) == IF d.personastate = 3 THEN 7 ELSE d.personastate

\* line 252: online_data.sort(key=...)
SortOnline(s) ==
    StableSort(s, [i \in 1..Len(s) |-> <<OnlineSortKey(s[i])>>])

\* a gaming condition that compares an Away record with the Online label
IsGaming_AwayAgainstOnline(d) ==
    \/ d.personastate = 1 /\ d.status # LABEL_ONLINE
    \/ d.personastate = 3 /\ d.status # LABEL_ONLINE
    \/ d.personastate = 4 /\ d.status # LABEL_ONLINE

\* lines 242-244: the condition of the gaming_data comprehension
IsGaming(d) ==
    \/ d.personastate = 1 /\ d.status # LABEL_ONLINE
    \/ d.personastate = 3 /\ d.status # LABEL_AWAY
    \/ d.personastate = 4 /\ d.status # LABEL_ONLINE

\* an online condition that forgets Snooze and takes every Busy-or-later state
IsOnline_NoSnooze(d) ==
    \/ d.personastate = 1 /\ d.status = LABEL_ONLINE
    \/ d.personastate = 3 /\ d.status = LABEL_AWAY
    \/ d.personastate \in {2, 5, 6}

\* lines 248-251: the condition of the online_data comprehension
IsOnline(d) ==
    \/ d.personastate = 1 /\ d.status = LABEL_ONLINE
    \/ d.personastate = 3 /\ d.status = LABEL_AWAY
    \/ d.personastate = 4 /\ d.status = LABEL_ONLINE
    \/ d.personastate \in {2, 5, 6}

\* line 256: the condition of the offline_data comprehension
IsOffline(d) == d.personastate = 0

\* a section canvas that ends right under its last member row
SectionHeight_NoPadding(n) == SECTION_HEADER + (MEMBER_AVATAR_SIZE + 16) * n

\* lines 177, 193, 215: the height of the canvas of a section with n members
SectionHeight(n) ==
    SECTION_HEADER + (MEMBER_AVATAR_SIZE + 16) * n + SECTION_PADDING

\* lines 189, 211, 233: where member i (0-based) is pasted in its section
MemberRowTop(i) == SECTION_HEADER + (MEMBER_AVATAR_SIZE + 16) * i

\* the image a section renderer returns for the (already ordered) members
SectionImage(kind, members) ==
    [kind |-> kind,
     height |-> SectionHeight(Len(members)),
     rows |-> [i \in 1..Len(members) |->
                 [steamid |-> members[i].steamid, top |-> MemberRowTop(i - 1)]]]

\* a separator after every section, the last one included
DrawsSeparator_AfterLast(i, n) == i # n

\* line 268: whether a separator follows section i (0-based) of n
DrawsSeparator(i, n) == i # n - 1

\* lines 264-269: the separator rectangles of the paste loop
SeparatorsOf(images) ==
    LET n == Len(images)
        \* y after section i (1-based) has been pasted
        yAfter(i) == PARENT_STATUS_HEIGHT + FRIENDS_SEARCH_HEIGHT
                     + Sum([j \in 1..i |-> images[j].height])
        followed == {i \in 1..n : DrawsSeparator(i - 1, n)}
        f[i \in 0..n] ==
            IF i = 0 THEN <<>>
            ELSE IF i \in followed
                 THEN Append(f[i - 1], [after |-> i, top |-> yAfter(i) - 1,
                                        bottom |-> yAfter(i)])
                 ELSE f[i - 1]
    IN f[n]

\* the rosters a caller may pass: records with any personastate and status
Rosters(longest) ==
    UNION {[1..n -> [steamid : {0}, personastate : PersonaStates,
                     status : Statuses]] : n \in 0..longest}

\* the state before a call with a list of at most `longest` records, the
\* steamid of a record standing for its identity
BeforeCall(longest) ==
    /\ roster_pc = "call"
    /\ players = <<>>
    /\ \E r \in Rosters(longest) :
          input = [i \in 1..Len(r) |-> [r[i] EXCEPT !.steamid = i]]
    /\ data = input
    /\ gaming_data = <<>>
    /\ online_data = <<>>
    /\ offline_data = <<>>
    /\ status_images = <<>>
    /\ height = 0
    /\ separators = <<>>

RosterInit == BeforeCall(MaxRoster)

SectionInit == BeforeCall(MaxSection)

\* draw_friends_status(parent_avatar, parent_name, data)
DrawFriendsStatus ==
    /\ roster_pc = "call"
    /\ data' = SortByPersonastate(data)
    /\ gaming_data' = SortByStatus(SelectSeq(data', IsGaming))
    /\ online_data' = SortOnline(SelectSeq(data', IsOnline))
    /\ offline_data' = SelectSeq(data', IsOffline)
    /\ status_images' =
          (IF gaming_data' # <<>>
           THEN <<SectionImage("gaming", gaming_data')>> ELSE <<>>)
          \o (IF online_data' # <<>>
              THEN <<SectionImage("online", online_data')>> ELSE <<>>)
          \o (IF offline_data' # <<>>
              THEN <<SectionImage("offline", offline_data')>> ELSE <<>>)
    /\ height' = PARENT_STATUS_HEIGHT + FRIENDS_SEARCH_HEIGHT
                 + Sum([j \in 1..Len(status_images') |->
                          status_images'[j].height])
    /\ separators' = SeparatorsOf(status_images')
    /\ roster_pc' = "done"
    /\ UNCHANGED <<players, input, not_roster_vars>>

\* draw_gaming_friends_status(data), called on its own: it sorts the list it
\* is given
DrawGamingFriendsStatus ==
    /\ roster_pc = "call"
    /\ data' = SortByStatus(data)
    /\ status_images' = <<SectionImage("gaming", data')>>
    /\ height' = status_images'[1].height
    /\ roster_pc' = "section"
    /\ UNCHANGED <<players, input, gaming_data, online_data, offline_data,
                   separators, not_roster_vars>>

\* draw_online_friends_status(data), called on its own
DrawOnlineFriendsStatus ==
    /\ roster_pc = "call"
    /\ status_images' = <<SectionImage("online", data)>>
    /\ height' = status_images'[1].height
    /\ roster_pc' = "section"
    /\ UNCHANGED <<players, input, data, gaming_data, online_data,
                   offline_data, separators, not_roster_vars>>

\* draw_offline_friends_status(data), called on its own
DrawOfflineFriendsStatus ==
    /\ roster_pc = "call"
    /\ status_images' = <<SectionImage("offline", data)>>
    /\ height' = status_images'[1].height
    /\ roster_pc' = "section"
    /\ UNCHANGED <<players, input, data, gaming_data, online_data,
                   offline_data, separators, not_roster_vars>>

RosterNext == DrawFriendsStatus

----------------------------------------------------------------------------
(* simplize_steam_player_data, utils.py lines 51-91 *)

\* "离线"
LABEL_OFFLINE == <<31163, 32447>>
\* "上次在线 "
LAST_ONLINE == <<19978, 27425, 22312, 32447, 32>>
\* "刚刚"
JUST_NOW == <<21018, 21018>>
\* " 分钟前", " 小时前", " 天前", " 个月前", " 年前"
MINUTES_AGO == <<32, 20998, 38047, 21069>>
HOURS_AGO == <<32, 23567, 26102, 21069>>
DAYS_AGO == <<32, 22825, 21069>>
MONTHS_AGO == <<32, 20010, 26376, 21069>>
YEARS_AGO == <<32, 24180, 21069>>
\* "未知"
LABEL_UNKNOWN == <<26410, 30693>>

RECURSIVE Decimal(_)
\* str(n) for n >= 0, as f"{n}" formats it
Decimal(n) ==
    IF n < 10 THEN <<48 + n>>
    ELSE Append(Decimal(n \div 10), 48 + (n % 10))

\* lines 65-76: the status of an offline player seen time_to_now seconds ago
LastOnline(time_to_now) ==
    IF time_to_now < 60 THEN LAST_ONLINE \o JUST_NOW
    ELSE IF time_to_now < 3600
    THEN LAST_ONLINE \o Decimal(time_to_now \div 60) \o MINUTES_AGO
    ELSE IF time_to_now < 86400
    THEN LAST_ONLINE \o Decimal(time_to_now \div 3600) \o HOURS_AGO
    ELSE IF time_to_now < 2592000
    THEN LAST_ONLINE \o Decimal(time_to_now \div 86400) \o DAYS_AGO
    ELSE IF time_to_now < 31536000
    THEN LAST_ONLINE \o Decimal(time_to_now \div 2592000) \o MONTHS_AGO
    ELSE LAST_ONLINE \o Decimal(time_to_now \div 31536000) \o YEARS_AGO

\* player.get("gameextrainfo") of a player without that field
NO_GAME == <<>>

\* lines 59-84: status; a player without lastlogoff has time_to_now NONE, a
\* player without gameextrainfo has NO_GAME for it and a player in a game the
\* tuple of the name of the game
StatusOf(player) ==
    IF player.personastate = 0
    THEN IF player.time_to_now = NONE THEN LABEL_OFFLINE
         ELSE LastOnline(player.time_to_now)
    ELSE IF player.personastate \in {1, 2, 4}
    THEN IF player.gameextrainfo = NO_GAME THEN LABEL_ONLINE
         ELSE player.gameextrainfo[1]
    ELSE IF player.personastate = 3
    THEN IF player.gameextrainfo = NO_GAME THEN LABEL_AWAY
         ELSE player.gameextrainfo[1]
    ELSE IF player.personastate \in {5, 6}
    THEN LABEL_ONLINE
    ELSE LABEL_UNKNOWN

\* lines 85-91: the record returned
SimplizeSteamPlayerData(player) ==
    [steamid |-> player.steamid, status |-> StatusOf(player),
     personastate |-> player.personastate]

\* the players of the Steam API: any persona state, in a game or not, seen
\* some time ago or without lastlogoff
Players ==
    [steamid : {0}, personastate : PersonaStates,
     gameextrainfo : {NO_GAME, <<GAME_CS>>},
     time_to_now : {NONE, 30, 120, 7200, 172800, 5184000, 63072000}]

\* the state before the records of a list of players are derived
FriendsInit ==
    /\ roster_pc = "players"
    /\ \E n \in 0..MaxPlayers :
          \E l \in [1..n -> Players] :
             players = [i \in 1..n |-> [l[i] EXCEPT !.steamid = i]]
    /\ input = <<>>
    /\ data = <<>>
    /\ gaming_data = <<>>
    /\ online_data = <<>>
    /\ offline_data = <<>>
    /\ status_images = <<>>
    /\ height = 0
    /\ separators = <<>>

\* the list given to draw_friends_status: one record per player
SimplizePlayers ==
    /\ roster_pc = "players"
    /\ input' = [i \in 1..Len(players) |-> SimplizeSteamPlayerData(players[i])]
    /\ data' = input'
    /\ roster_pc' = "call"
    /\ UNCHANGED <<players, gaming_data, online_data, offline_data,
                   status_images, height, separators, not_roster_vars>>

FriendsNext == SimplizePlayers \/ DrawFriendsStatus

SectionNext ==
    \/ DrawGamingFriendsStatus
    \/ DrawOnlineFriendsStatus
    \/ DrawOfflineFriendsStatus
    \/ DrawFriendsStatus

\* the roster variables of a run that makes no roster call
RosterIdle ==
    /\ roster_pc = "idle"
    /\ players = <<>>
    /\ input = <<>>
    /\ data = <<>>
    /\ gaming_data = <<>>
    /\ online_data = <<>>
    /\ offline_data = <<>>
    /\ status_images = <<>>
    /\ height = 0
    /\ separators = <<>>

----------------------------------------------------------------------------
(* draw_player_status: the biography loop, lines 410-422 *)

\* "\n"
NEWLINE == 10

\* the characters of the biographies: "\n", "i" and "W"
BioChars == {NEWLINE, 105, 87}

\* ImageFont.getlength(char) at size 22, for a font in which a line holds three
\* "i" and in which a "W" alone is wider than a line
GlyphLength(char) ==
    CASE char = NEWLINE -> 0
      [] char = 105 -> 220
      [] char = 87 -> 650

\* a condition that does not close the line at a newline
ClosesLine_NoNewline(width, i, char, description) ==
    \/ width > BIO_LINE_WIDTH
    \/ i = Len(description) - 1

\* line 416: whether the line is drawn at this character; i is the 0-based
\* index of the character
ClosesLine(width, i, char, description) ==
    \/ width > BIO_LINE_WIDTH
    \/ i = Len(description) - 1
    \/ char = NEWLINE

\* a loop that leaves only when a fifth line has been drawn
LeavesLoop_OneLate(off) == off > BIO_LINE_PITCH * BIO_LINES

\* line 421: the condition of the break
LeavesLoop(off) == off >= BIO_LINE_PITCH * BIO_LINES

Biographies == UNION {[1..n -> BioChars] : n \in 0..MaxBio}

\* lines 410-412
BioInit ==
    /\ bio_pc = "loop"
    /\ player_description \in Biographies
    /\ idx = 0
    /\ line = <<>>
    /\ line_width = 0
    /\ offset = 0
    /\ drawn = <<>>

\* lines 413-422: one iteration of the for loop
BioStep ==
    /\ bio_pc = "loop"
    /\ idx < Len(player_description)
    /\ LET char == player_description[idx + 1]
           width == line_width + GlyphLength(char)
       IN IF ClosesLine(width, idx, char, player_description)
          THEN /\ drawn' = Append(drawn, [text |-> Append(line, char),
                                          y |-> BIO_TOP + offset,
                                          closed_at |-> idx + 1])
               /\ line' = <<>>
               /\ offset' = offset + BIO_LINE_PITCH
               /\ line_width' = 0
          ELSE /\ line' = Append(line, char)
               /\ line_width' = width
               /\ UNCHANGED <<offset, drawn>>
    /\ idx' = idx + 1
    /\ bio_pc' = IF LeavesLoop(offset') THEN "break" ELSE "loop"
    /\ UNCHANGED <<player_description, not_bio_vars>>

\* line 413: the for loop ends when the text is exhausted
BioEnd ==
    /\ bio_pc = "loop"
    /\ idx = Len(player_description)
    /\ bio_pc' = "end"
    /\ UNCHANGED <<player_description, idx, line, line_width, offset, drawn,
                   not_bio_vars>>

BioNext == BioStep \/ BioEnd

\* the biography variables of a run that wraps no biography
BioIdle ==
    /\ bio_pc = "idle"
    /\ player_description = <<>>
    /\ idx = 0
    /\ line = <<>>
    /\ line_width = 0
    /\ offset = 0
    /\ drawn = <<>>

----------------------------------------------------------------------------
(* get_brightest_and_darkest_color, lines 328-343 *)

\* the HSV pixels the images are made of: a gray, a bright vivid one, a dark
\* vivid one of the same hue, one of a nearby hue and one of a distant hue
Pixels ==
    {[h |-> 0, s |-> 0, v |-> 128],
     [h |-> 10, s |-> 200, v |-> 250],
     [h |-> 10, s |-> 150, v |-> 20],
     [h |-> 20, s |-> 150, v |-> 30],
     [h |-> 120, s |-> 120, v |-> 60]}

\* the lengths of the runs of equal pixels
RunLengths == {1, 9}

RECURSIVE Expand(_)
\* the pixels of a run-length encoded image
Expand(runs) ==
    IF runs = <<>> THEN <<>>
    ELSE [i \in 1..Head(runs).n |-> Head(runs).px] \o Expand(Tail(runs))

\* the non-empty images
Images ==
    {Expand(runs) : runs \in UNION {[1..k -> [px : Pixels, n : RunLengths]] :
                                       k \in 1..MaxRuns}}

\* line 330: vivid_mask
IsVivid(pixel, threshold) == pixel.s > threshold

\* line 331: vivid_pixels
VividPixels(img, threshold) ==
    SelectSeq(img, LAMBDA pixel : IsVivid(pixel, threshold))

\* line 332: the condition of the recursive call
MustRetry(img, threshold) ==
    Len(VividPixels(img, threshold)) < MIN_VIVID_PIXELS

\* np.argmax(pixels[..., 2]): the first index of the greatest value
ArgMaxValue(pixels) ==
    CHOOSE i \in 1..Len(pixels) :
        /\ \A j \in 1..Len(pixels) : pixels[j].v <= pixels[i].v
        /\ \A j \in 1..(i - 1) : pixels[j].v < pixels[i].v

\* np.argmin(pixels[..., 2]): the first index of the least value
ArgMinValue(pixels) ==
    CHOOSE i \in 1..Len(pixels) :
        /\ \A j \in 1..Len(pixels) : pixels[j].v >= pixels[i].v
        /\ \A j \in 1..(i - 1) : pixels[j].v > pixels[i].v

Abs(x) == IF x < 0 THEN -x ELSE x

\* lines 335-340: the darkest pixel, given the brightest
DarkestOf(vivid, brightest, hue_threshold) ==
    LET first == vivid[ArgMinValue(vivid)]
        possible == SelectSeq(vivid, LAMBDA pixel : pixel.h # brightest.h)
    IN IF Abs(brightest.h - first.h) < hue_threshold /\ Len(possible) > 0
       THEN possible[ArgMinValue(possible)]
       ELSE first

NoPixel == [h |-> -1, s |-> -1, v |-> -1]

\* the outermost call, with the thresholds the caller gives
ColorInit ==
    /\ color_pc = "call"
    /\ image \in Images
    /\ call_args \in [saturation_threshold : {DEFAULT_SATURATION_THRESHOLD, 45},
                      hue_difference_threshold :
                          {0, DEFAULT_HUE_DIFFERENCE_THRESHOLD, 120}]
    /\ saturation_threshold = call_args.saturation_threshold
    /\ hue_difference_threshold = call_args.hue_difference_threshold
    /\ depth = 0
    /\ brightest_pixel = NoPixel
    /\ darkest_pixel = NoPixel

\* lines 332-333: the recursive call, which passes the lowered saturation
\* threshold and leaves hue_difference_threshold to its default
Retry ==
    /\ color_pc = "call"
    /\ MustRetry(image, saturation_threshold)
    /\ depth < RecursionLimit
    /\ saturation_threshold' = saturation_threshold - SATURATION_STEP
    /\ hue_difference_threshold' = DEFAULT_HUE_DIFFERENCE_THRESHOLD
    /\ depth' = depth + 1
    /\ UNCHANGED <<color_pc, image, call_args, brightest_pixel, darkest_pixel,
                   not_color_vars>>

\* lines 332-333, when the stack is full: the interpreter raises
\* RecursionError, which no caller catches
RaiseRecursionError ==
    /\ color_pc = "call"
    /\ MustRetry(image, saturation_threshold)
    /\ depth >= RecursionLimit
    /\ color_pc' = "RecursionError"
    /\ UNCHANGED <<image, call_args, saturation_threshold,
                   hue_difference_threshold, depth, brightest_pixel,
                   darkest_pixel, not_color_vars>>

\* lines 334-343: the pixels whose colours are returned (through every
\* pending call)
ReturnColors ==
    /\ color_pc = "call"
    /\ ~MustRetry(image, saturation_threshold)
    /\ brightest_pixel' = VividPixels(image, saturation_threshold)
                             [ArgMaxValue(VividPixels(image, saturation_threshold))]
    /\ darkest_pixel' = DarkestOf(VividPixels(image, saturation_threshold),
                                  brightest_pixel', hue_difference_threshold)
    /\ color_pc' = "returned"
    /\ UNCHANGED <<image, call_args, saturation_threshold,
                   hue_difference_threshold, depth, not_color_vars>>

ColorNext == Retry \/ RaiseRecursionError \/ ReturnColors

\* the palette variables of a run that extracts no palette
ColorIdle ==
    /\ color_pc = "idle"
    /\ image = <<>>
    /\ call_args = [saturation_threshold |-> DEFAULT_SATURATION_THRESHOLD,
                    hue_difference_threshold |-> DEFAULT_HUE_DIFFERENCE_THRESHOLD]
    /\ saturation_threshold = DEFAULT_SATURATION_THRESHOLD
    /\ hue_difference_threshold = DEFAULT_HUE_DIFFERENCE_THRESHOLD
    /\ depth = 0
    /\ brightest_pixel = NoPixel
    /\ darkest_pixel = NoPixel

----------------------------------------------------------------------------
(* draw_game_info, lines 345-394, and the title panel of draw_player_status,
   lines 432-450 *)

\* line 371: whether the block is returned without an achievement strip
WithoutStrip(entry) == entry.completed = NONE \/ entry.total = NONE

\* line 383 and 387: where icon i (1-based) is pasted in the strip
IconX(i) ==
    STRIP_WIDTH - ICON_SIZE * ICON_SLOTS - ICON_GAP * ICON_SLOTS
    + (ICON_SIZE + ICON_GAP) * (i - 1)

\* lines 384-387: the icons pasted, one per achievement
IconsOf(entry) == [i \in 1..entry.achievements |-> IconX(i)]

\* lines 388-392: the badge, drawn where the loop over the achievements left x
BadgeOf(entry) ==
    IF entry.completed > BADGE_ABOVE
    THEN <<[x |-> IconX(entry.achievements + 1),
            n |-> entry.completed - BADGE_SHOWN]>>
    ELSE <<>>

\* what draw_game_info does not return when it raises
NoBlock(outcome) ==
    [outcome |-> outcome, width |-> 0, height |-> 0, strip |-> FALSE,
     progress |-> <<>>, icons |-> <<>>, badge |-> <<>>]

\* draw_game_info(...): the block returned, or the exception raised by the
\* division of line 381; the progress given to create_progress_bar is the
\* quotient completed / total, kept as a fraction
DrawGameInfo(entry) ==
    IF WithoutStrip(entry)
    THEN [outcome |-> "block", width |-> GAME_INFO_WIDTH,
          height |-> GAME_INFO_HEADER_HEIGHT, strip |-> FALSE,
          progress |-> <<>>, icons |-> <<>>, badge |-> <<>>]
    ELSE IF entry.total = 0
    THEN NoBlock("ZeroDivisionError")
    ELSE [outcome |-> "block", width |-> GAME_INFO_WIDTH,
          height |-> GAME_INFO_HEADER_HEIGHT + STRIP_HEIGHT + STRIP_MARGIN,
          strip |-> TRUE,
          progress |-> <<[num |-> entry.completed, den |-> entry.total]>>,
          icons |-> IconsOf(entry), badge |-> BadgeOf(entry)]

\* the entries given to a single call of draw_game_info
GameEntries ==
    [achievements : 0..MaxAchievements, completed : {NONE, 0, 6, 7, 9},
     total : {NONE, 0, 9}]

\* the entries of the longer lists
TitleEntries ==
    [achievements : {0, 5}, completed : {NONE, 7}, total : {NONE, 0, 9}]

PlayerGames ==
    {<<entry>> : entry \in GameEntries}
    \cup UNION {[1..n -> TitleEntries] : n \in 0..MaxGames}

NoPanel ==
    [width |-> 0, height |-> 0, left |-> 0, top |-> 0, gradient_height |-> 0]

\* the sizes of the background photos: narrower than the card (of even and
\* of odd width), as wide, and wider
PhotoSizes == [width : {900, 901, CARD_WIDTH, 1200}, height : {800}]

\* line 401: the box cropped out of a photo of this size
CropBox(size) ==
    [left |-> (size.width - CARD_WIDTH) \div 2, top |-> 0,
     right |-> (size.width + CARD_WIDTH) \div 2, bottom |-> size.height]

\* line 451: the x the card is pasted at
OverlayLeft(size) == (size.width - CARD_WIDTH) \div 2

NoSize == [width |-> 0, height |-> 0]

\* lines 401 and 432: the card is the crop, recolored (recolor_image returns
\* an image of the size of the one it is given)
CardInit ==
    /\ card_pc = "games"
    /\ player_bg \in PhotoSizes
    /\ crop_box = CropBox(player_bg)
    /\ bg = [width |-> crop_box.right - crop_box.left,
             height |-> crop_box.bottom - crop_box.top]
    /\ overlay_at = [left |-> 0, top |-> 0]
    /\ returned = NoSize
    /\ player_games \in PlayerGames
    /\ game_info = NoBlock("none")
    /\ game_images = <<>>
    /\ bg_game = NoPanel
    /\ pasted = <<>>

\* lines 433-436: one iteration of the loop over player_games; an exception
\* of draw_game_info leaves draw_player_status
GameLoopStep ==
    /\ card_pc = "games"
    /\ Len(game_images) < Len(player_games)
    /\ game_info' = DrawGameInfo(player_games[Len(game_images) + 1])
    /\ IF game_info'.outcome = "block"
       THEN game_images' = Append(game_images, game_info') /\ UNCHANGED card_pc
       ELSE card_pc' = game_info'.outcome /\ UNCHANGED game_images
    /\ UNCHANGED <<player_bg, crop_box, bg, overlay_at, returned, player_games,
                   bg_game, pasted, not_card_vars>>

\* line 437: the height of the panel
PanelHeight(images) ==
    PANEL_HEADER + Sum([i \in 1..Len(images) |-> images[i].height + PANEL_GAP])

\* lines 447-450: where block i is pasted on the card
BlockPaste(images, i) ==
    [left |-> (PANEL_WIDTH - images[i].width) \div 2 + PANEL_LEFT,
     top |-> BLOCKS_TOP
             + Sum([j \in 1..(i - 1) |-> images[j].height + PANEL_GAP])]

\* lines 437-450: the panel and the title blocks are pasted onto the card
ComposePanel ==
    /\ card_pc = "games"
    /\ Len(game_images) = Len(player_games)
    /\ bg_game' = [width |-> PANEL_WIDTH, height |-> PanelHeight(game_images),
                   left |-> PANEL_LEFT, top |-> PANEL_TOP,
                   gradient_height |-> PANEL_GRADIENT_HEIGHT]
    /\ pasted' = [i \in 1..Len(game_images) |-> BlockPaste(game_images, i)]
    /\ card_pc' = "composed"
    /\ UNCHANGED <<player_bg, crop_box, bg, overlay_at, returned, player_games,
                   game_info, game_images, not_card_vars>>

\* lines 451-452: the card is pasted on the photo, which is returned
PasteOnPhoto ==
    /\ card_pc = "composed"
    /\ overlay_at' = [left |-> OverlayLeft(player_bg), top |-> 0]
    /\ returned' = player_bg
    /\ card_pc' = "done"
    /\ UNCHANGED <<player_bg, crop_box, bg, player_games, game_info,
                   game_images, bg_game, pasted, not_card_vars>>

CardNext == GameLoopStep \/ ComposePanel \/ PasteOnPhoto

\* the panel variables of a run that draws no card
CardIdle ==
    /\ card_pc = "idle"
    /\ player_bg = NoSize
    /\ crop_box = [left |-> 0, top |-> 0, right |-> 0, bottom |-> 0]
    /\ bg = NoSize
    /\ overlay_at = [left |-> 0, top |-> 0]
    /\ returned = NoSize
    /\ player_games = <<>>
    /\ game_info = NoBlock("none")
    /\ game_images = <<>>
    /\ bg_game = NoPanel
    /\ pasted = <<>>

----------------------------------------------------------------------------
(* create_gradient_image, create_vertical_gradient_rect, rounded_rectangle and
   create_progress_bar, lines 308-323 and 454-478.  An image is modelled by
   its size and by whether all its pixels are fully transparent; `rows`
   stands for the height argument. *)

\* Image.new("RGBA", (1, 1), (0, 0, 0, 0))
TransparentPixel ==
    [outcome |-> "image", width |-> 1, height |-> 1, transparent |-> TRUE]

\* lines 315-323: create_vertical_gradient_rect(width, height, ...)
CreateVerticalGradientRect(width, rows) ==
    IF width <= 0 \/ rows <= 0
    THEN TransparentPixel
    ELSE [outcome |-> "image", width |-> width, height |-> rows,
          transparent |-> FALSE]

\* lines 308-313: what create_gradient_image((width, rows), ...) can end
\* in.  There is no test of the size: np.linspace raises ValueError for a
\* negative number of samples and np.tile for a negative repetition; with a
\* zero side the array is empty, and Image.fromarray either raises or returns
\* an image without pixels, depending on the Pillow at hand.
CreateGradientImage(width, rows) ==
    IF width < 0 \/ rows < 0
    THEN {[outcome |-> "ValueError", width |-> 0, height |-> 0,
           transparent |-> FALSE]}
    ELSE IF width = 0 \/ rows = 0
    THEN {[outcome |-> "ValueError", width |-> 0, height |-> 0,
           transparent |-> FALSE],
          [outcome |-> "image", width |-> width, height |-> rows,
           transparent |-> FALSE]}
    ELSE {[outcome |-> "image", width |-> width, height |-> rows,
           transparent |-> FALSE]}

\* lines 454-466: rounded_rectangle(image, radius) returns a canvas one pixel
\* wider and higher, on which nothing is drawn outside the image pasted at
\* (0, 0)
RoundedRectangle(img) ==
    [img EXCEPT !.width = img.width + 1, !.height = img.height + 1]

\* int(x) for the quotient x = a / b of integers with b > 0: Python's int
\* truncates towards zero
IntOfQuotient(a, b) == IF a >= 0 THEN a \div b ELSE -((-a) \div b)

\* a fill as wide as the whole bar
FillWidth_NoInset(width, progress) ==
    IntOfQuotient(width * progress.num, progress.den)

\* line 475: the width passed to create_vertical_gradient_rect,
\* int(width * progress) - 6
FillWidth(width, progress) ==
    IntOfQuotient(width * progress.num, progress.den) - FILL_INSET_X

\* lines 468-478: create_progress_bar(progress, color, width, rows); the
\* fill is the gradient the call pastes, with the number of its columns and
\* rows that are not transparent
CreateProgressBar(progress, width, rows) ==
    LET bar_image == CreateVerticalGradientRect(FillWidth(width, progress),
                                                rows - FILL_INSET_Y)
    IN [outcome |-> "image", width |-> width + 1, height |-> rows + 1,
        transparent |-> FALSE,
        fill |-> [left |-> FILL_LEFT, top |-> FILL_TOP,
                  image |-> RoundedRectangle(bar_image),
                  visible_width |->
                      IF bar_image.transparent THEN 0 ELSE bar_image.width,
                  visible_height |->
                      IF bar_image.transparent THEN 0 ELSE bar_image.height]]

\* the widths of the bars: the narrowest ones that have a fill, and the
\* default
BarWidths == FILL_INSET_X..(FILL_INSET_X + MaxBarExtra) \cup {BAR_WIDTH}

\* the values of progress, as quotients: below 0, in [0, 1] and above 1
Progresses == [num : -1..MaxProgress, den : 1..MaxProgress]

\* the calls under study
BarCalls ==
    [fn : {"create_progress_bar"}, progress : Progresses, width : BarWidths,
     height : {BAR_HEIGHT}]

GradientCalls ==
    [fn : {"create_vertical_gradient_rect", "create_gradient_image"},
     progress : {[num |-> 0, den |-> 1]}, width : -1..MaxGradientSide,
     height : -1..MaxGradientSide]

NoImage == [outcome |-> "none", width |-> 0, height |-> 0, transparent |-> FALSE]

BarInit ==
    /\ bar_pc = "call"
    /\ bar_call \in BarCalls \cup GradientCalls
    /\ bar_result = NoImage

CallCreateProgressBar ==
    /\ bar_pc = "call"
    /\ bar_call.fn = "create_progress_bar"
    /\ bar_result' = CreateProgressBar(bar_call.progress, bar_call.width,
                                       bar_call.height)
    /\ bar_pc' = "returned"
    /\ UNCHANGED <<bar_call, not_bar_vars>>

CallCreateVerticalGradientRect ==
    /\ bar_pc = "call"
    /\ bar_call.fn = "create_vertical_gradient_rect"
    /\ bar_result' = CreateVerticalGradientRect(bar_call.width, bar_call.height)
    /\ bar_pc' = "returned"
    /\ UNCHANGED <<bar_call, not_bar_vars>>

CallCreateGradientImage ==
    /\ bar_pc = "call"
    /\ bar_call.fn = "create_gradient_image"
    /\ bar_result' \in CreateGradientImage(bar_call.width, bar_call.height)
    /\ bar_pc' = IF bar_result'.outcome = "image" THEN "returned"
                 ELSE bar_result'.outcome
    /\ UNCHANGED <<bar_call, not_bar_vars>>

BarNext ==
    \/ CallCreateProgressBar
    \/ CallCreateVerticalGradientRect
    \/ CallCreateGradientImage

\* the variables of a run that calls none of these
BarIdle ==
    /\ bar_pc = "idle"
    /\ bar_call = [fn |-> "none", progress |-> [num |-> 0, den |-> 1],
                   width |-> 0, height |-> 0]
    /\ bar_result = NoImage

----------------------------------------------------------------------------
(* split_image and recolor_image, lines 277-306.  A box is modelled by its
   left and top edges and its size. *)

\* lines 279-280: the size of a piece
PieceWidth(call) == call.width \div call.cols
PieceHeight(call) == call.height \div call.rows

\* lines 282-286: the boxes split_image crops, row by row
SplitImage(call) ==
    [k \in 1..(call.rows * call.cols) |->
        [left |-> ((k - 1) % call.cols) * PieceWidth(call),
         top |-> ((k - 1) \div call.cols) * PieceHeight(call),
         width |-> PieceWidth(call),
         height |-> PieceHeight(call)]]

\* lines 292-293: radius
Radius(call) ==
    (IF PieceWidth(call) < PieceHeight(call)
     THEN PieceWidth(call) ELSE PieceHeight(call)) \div 2

\* lines 297-303: the box in which the blob of piece i (0-based) is pasted.
\* The blob is the ellipse drawn in (0, 0, piece_width, piece_height) on an
\* image of the size of a piece, so it spans that whole image, which is
\* pasted with its corner at (x - radius, y - radius).
BlobBox(call, i) ==
    LET row == i \div call.cols
        col == i % call.cols
        x == col * PieceWidth(call) + PieceWidth(call) \div 2
        y == row * PieceHeight(call) + PieceHeight(call) \div 2
    IN [left |-> x - Radius(call), top |-> y - Radius(call),
        width |-> PieceWidth(call), height |-> PieceHeight(call)]

\* the calls under study: small images in every grid that leaves no piece
\* empty, and the call of draw_player_status for two background photos
RecolorCalls ==
    {c \in [width : 1..MaxSide, height : 1..MaxSide, rows : 1..MaxGrid,
            cols : 1..MaxGrid] : c.width >= c.cols /\ c.height >= c.rows}
    \cup [width : {CARD_WIDTH}, height : {800, 960}, rows : {RECOLOR_GRID},
          cols : {RECOLOR_GRID}]

RecolorInit ==
    /\ recolor_pc = "call"
    /\ recolor_call \in RecolorCalls
    /\ pieces = <<>>
    /\ blobs = <<>>

\* recolor_image(image, rows, cols)
RecolorImage ==
    /\ recolor_pc = "call"
    /\ pieces' = SplitImage(recolor_call)
    /\ blobs' = [k \in 1..Len(pieces') |-> BlobBox(recolor_call, k - 1)]
    /\ recolor_pc' = "returned"
    /\ UNCHANGED <<recolor_call, not_recolor_vars>>

RecolorNext == RecolorImage

\* the variables of a run that recolors no image
RecolorIdle ==
    /\ recolor_pc = "idle"
    /\ recolor_call = [width |-> 0, height |-> 0, rows |-> 0, cols |-> 0]
    /\ pieces = <<>>
    /\ blobs = <<>>

----------------------------------------------------------------------------
(* draw_player_status: the palette, lines 423-429, and random_color_offset,
   lines 325-326.  A colour is the tuple of its channels. *)

\* the RGB colours get_brightest_and_darkest_color may return: channels at
\* and next to the values where the adjustment clamps
ColorSamples == {<<0, 29, 30>>, <<255, 226, 225>>}

\* the values np.random.randint(-20, 21) may return: the extremes and 0 (it
\* returns any integer of -20..20)
RandomInts == {-JITTER, 0, JITTER}

\* line 424: map(lambda x: x - 30 if x >= 30 else 0, brightest_color)
Darker(color) ==
    [i \in 1..Len(color) |->
        IF color[i] >= PALETTE_SHIFT THEN color[i] - PALETTE_SHIFT ELSE 0]

\* line 425: map(lambda x: x + 30 if x <= 255 - 30 else 255, darkest_color)
Lighter(color) ==
    [i \in 1..Len(color) |->
        IF color[i] <= 255 - PALETTE_SHIFT THEN color[i] + PALETTE_SHIFT
        ELSE 255]

\* lines 426, 428: (color[0], color[1], color[2], 128)
WithAlpha(color) == <<color[1], color[2], color[3], PALETTE_ALPHA>>

\* min(255, max(0, c))
ClampChannel(c) == IF c < 0 THEN 0 ELSE IF c > 255 THEN 255 ELSE c

\* lines 325-326: random_color_offset(color, offset), rs being the integers
\* drawn: one for every element of the tuple it is given
RandomColorOffset(color, rs) ==
    [i \in 1..Len(color) |-> ClampChannel(color[i] + rs[i])]

\* line 423
PaletteInit ==
    /\ palette_pc = "extracted"
    /\ extracted \in [brightest : ColorSamples, darkest : ColorSamples]
    /\ brightest_color = extracted.brightest
    /\ darkest_color = extracted.darkest

\* lines 424-425
AdjustColors ==
    /\ palette_pc = "extracted"
    /\ brightest_color' = Darker(brightest_color)
    /\ darkest_color' = Lighter(darkest_color)
    /\ palette_pc' = "adjusted"
    /\ UNCHANGED <<extracted, not_palette_vars>>

\* lines 426-427
JitterBrightest ==
    /\ palette_pc = "adjusted"
    /\ \E rs \in [1..4 -> RandomInts] :
          brightest_color' = RandomColorOffset(WithAlpha(brightest_color), rs)
    /\ palette_pc' = "brightest"
    /\ UNCHANGED <<extracted, darkest_color, not_palette_vars>>

\* lines 428-429
JitterDarkest ==
    /\ palette_pc = "brightest"
    /\ \E rs \in [1..4 -> RandomInts] :
          darkest_color' = RandomColorOffset(WithAlpha(darkest_color), rs)
    /\ palette_pc' = "done"
    /\ UNCHANGED <<extracted, brightest_color, not_palette_vars>>

PaletteNext == AdjustColors \/ JitterBrightest \/ JitterDarkest

\* the variables of a run that makes no palette
PaletteIdle ==
    /\ palette_pc = "idle"
    /\ extracted = [brightest |-> <<0, 0, 0>>, darkest |-> <<0, 0, 0>>]
    /\ brightest_color = <<0, 0, 0>>
    /\ darkest_color = <<0, 0, 0>>

----------------------------------------------------------------------------
(* Python's int and str on texts of digits.  A number is the sequence of    *)
(* its decimal digits, the most significant first and without leading      *)
(* zeros (so 0 is the empty sequence): STEAM_ID_OFFSET has 17 digits, and  *)
(* Python's integers have no bound.                                        *)

\* "0".."9"
AsciiDigits == 48..57

\* the Arabic-Indic digits U+0660..U+0669, of the category Nd
ArabicIndicDigits == 1632..1641

\* the superscripts U+00B2, U+00B3 and U+00B9: digits that are not decimal
SuperscriptDigits == {178, 179, 185}

\* str.isdigit(): at least one character, every one a digit
IsDigit(text) ==
    /\ text # <<>>
    /\ \A k \in 1..Len(text) :
          text[k] \in AsciiDigits \cup ArabicIndicDigits \cup SuperscriptDigits

\* whether int(text) has a value: on a text that isdigit() accepts, exactly
\* when every character is a decimal digit (int raises ValueError on the
\* others)
IsDecimal(text) ==
    \A k \in 1..Len(text) : text[k] \in AsciiDigits \cup ArabicIndicDigits

DigitValue(char) ==
    IF char \in AsciiDigits THEN char - 48 ELSE char - 1632

\* a sequence of digits without its leading zeros
StripZeros(ds) ==
    LET nonzero == {k \in 1..Len(ds) : ds[k] # 0}
    IN  IF nonzero = {} THEN <<>>
        ELSE SubSeq(ds, CHOOSE k \in nonzero : \A j \in nonzero : k <= j,
                    Len(ds))

\* int(text), for a text of decimal digits
IntOf(text) == StripZeros([k \in 1..Len(text) |-> DigitValue(text[k])])

\* str(n)
Str(n) == IF n = <<>> THEN <<48>> ELSE [k \in 1..Len(n) |-> 48 + n[k]]

\* a < b
IntLess(a, b) == Len(a) < Len(b) \/ (Len(a) = Len(b) /\ StrLess(a, b))

\* a + b, digit by digit from the right with the carries
IntAdd(a, b) ==
    LET n == (IF Len(a) > Len(b) THEN Len(a) ELSE Len(b)) + 1
        da(k) == IF k <= Len(a) THEN a[Len(a) + 1 - k] ELSE 0
        db(k) == IF k <= Len(b) THEN b[Len(b) + 1 - k] ELSE 0
        carry[k \in 0..n] ==
            IF k = 0 THEN 0 ELSE (da(k) + db(k) + carry[k - 1]) \div 10
    IN  StripZeros([i \in 1..n |->
                      (da(n + 1 - i) + db(n + 1 - i) + carry[n - i]) % 10])

----------------------------------------------------------------------------
(* get_steam_id (steam.py) *)

\* steam.py line 14: 76561197960265728
STEAM_ID_OFFSET == <<7, 6, 5, 6, 1, 1, 9, 7, 9, 6, 0, 2, 6, 5, 7, 2, 8>>

\* what a call gives: None, a str, or the exception it raises
None == [outcome |-> "None", text |-> <<>>]
Returned(text) == [outcome |-> "str", text |-> text]
Raised(exception) == [outcome |-> exception, text |-> <<>>]

\* get_steam_id(steam_id_or_steam_friends_code), lines 16-26
get_steam_id(text) ==
    IF ~IsDigit(text) THEN None
    ELSE IF ~IsDecimal(text) THEN Raised("ValueError")
    ELSE IF IntLess(IntOf(text), STEAM_ID_OFFSET)
         THEN Returned(Str(IntAdd(IntOf(text), STEAM_ID_OFFSET)))
         ELSE Returned(text)

\* the characters of the arguments: "0", "1", "a", a space, the
\* Arabic-Indic digit three and the superscript two
IdChars == {48, 49, 97, 32, 1635, 178}

\* STEAM_ID_OFFSET written in Arabic-Indic digits
OffsetInArabicIndic == [k \in 1..17 |-> 1632 + STEAM_ID_OFFSET[k]]

\* arguments at the offset: the offset, the numbers next to it, the offset
\* with a leading zero and in another script, and the largest friend code
\* that has 17 digits
LongIds ==
    {Str(STEAM_ID_OFFSET),
     Str(IntAdd(STEAM_ID_OFFSET, <<1>>)),
     [Str(STEAM_ID_OFFSET) EXCEPT ![17] = 55],
     <<48>> \o Str(STEAM_ID_OFFSET),
     OffsetInArabicIndic,
     [k \in 1..18 |-> 57]}

IdArguments == UNION {[1..n -> IdChars] : n \in 0..MaxIdLen} \cup LongIds

SteamIdInit ==
    /\ id_pc = "call"
    /\ steam_id_or_steam_friends_code \in IdArguments
    /\ id_result = None
    /\ id_again = None

\* one call of get_steam_id
CallGetSteamId ==
    /\ id_pc = "call"
    /\ id_result' = get_steam_id(steam_id_or_steam_friends_code)
    /\ id_pc' = IF id_result'.outcome = "ValueError" THEN "ValueError"
                ELSE "returned"
    /\ UNCHANGED <<steam_id_or_steam_friends_code, id_again,
                   not_steamid_vars>>

\* get_steam_id called on the str that a call returned
CallGetSteamIdAgain ==
    /\ id_pc = "returned"
    /\ id_result.outcome = "str"
    /\ id_again' = get_steam_id(id_result.text)
    /\ id_pc' = "again"
    /\ UNCHANGED <<steam_id_or_steam_friends_code, id_result,
                   not_steamid_vars>>

SteamIdNext == CallGetSteamId \/ CallGetSteamIdAgain

\* the variables of a run that does not call get_steam_id
SteamIdIdle ==
    /\ id_pc = "idle"
    /\ steam_id_or_steam_friends_code = <<>>
    /\ id_result = None
    /\ id_again = None

----------------------------------------------------------------------------
(* SteamInfoPlugin (main.py): the groups, the users and Python's dict *)

\* the values of event.unified_msg_origin
Groups == {"g1", "g2"}

\* the values of event.get_sender_id(): "a" and "b"
UserIds == {<<97>>, <<98>>}

\* the dict without keys
EmptyDict == <<>>

\* d.get(key, default)
Get(d, key, default) == IF key \in DOMAIN d THEN d[key] ELSE default

\* d[key] = value, on a dict of groups
SetItem(d, key, value) ==
    [k \in DOMAIN d \cup {key} |-> IF k = key THEN value ELSE d[k]]

----------------------------------------------------------------------------
(* steam_bind, steam_unbind and steam_nickname.  bind_data[parent_id] is a  *)
(* dict user_id -> {"steam_id", "nickname"}: it is kept as the sequence of *)
(* its items in insertion order, the order in which Python iterates it.    *)

\* characters that str.strip() removes; the space is among them
Whitespace == {9, 10, 11, 12, 13, 28, 29, 30, 31, 32, 133, 160}

\* str.strip()
Strip(text) ==
    LET solid == {k \in 1..Len(text) : text[k] \notin Whitespace}
    IN  IF solid = {} THEN <<>>
        ELSE SubSeq(text, CHOOSE k \in solid : \A j \in solid : k <= j,
                    CHOOSE k \in solid : \A j \in solid : k >= j)

\* user_id in table
HasUser(table, user_id) == \E i \in 1..Len(table) : table[i].user_id = user_id

\* parent_id in self.bind_data and user_id in self.bind_data[parent_id]
IsBound(d, parent_id, user_id) ==
    parent_id \in DOMAIN d /\ HasUser(d[parent_id], user_id)

\* table[user_id] = entry: a key that is there keeps its place, a new key
\* goes last
PutUser(table, entry) ==
    IF HasUser(table, entry.user_id)
    THEN [i \in 1..Len(table) |->
            IF table[i].user_id = entry.user_id THEN entry ELSE table[i]]
    ELSE Append(table, entry)

\* del table[user_id]
DelUser(table, user_id) ==
    SelectSeq(table, LAMBDA entry : entry.user_id # user_id)

\* table[user_id]
UserEntry(table, user_id) ==
    table[CHOOSE i \in 1..Len(table) : table[i].user_id = user_id]

\* the arguments of steambind: " 1 ", "a", "", the superscript two, and a
\* steam id
BindArguments ==
    {<<32, 49, 32>>, <<97>>, <<>>, <<178>>,
     Str(IntAdd(STEAM_ID_OFFSET, <<2>>))}

\* the arguments of steamnickname: "", " " and " n"
NicknameArguments == {<<>>, <<32>>, <<32, 110>>}

\* line 233: get_steam_id(arg), for each argument of steambind
SteamIdOf == [args \in BindArguments |-> get_steam_id(Strip(args))]

NoCommand ==
    [command |-> "none", parent_id |-> "g1", user_id |-> <<>>, args |-> <<>>,
     reply |-> "none"]

BindInit ==
    /\ bind_data = EmptyDict
    /\ bind_event = NoCommand

\* steam_bind, lines 222-240
SteamBind ==
    \E parent_id \in Groups, user_id \in UserIds, args \in BindArguments :
        LET arg == Strip(args)
            returned_id == SteamIdOf[args]
            event == [command |-> "steambind", parent_id |-> parent_id,
                      user_id |-> user_id, args |-> args, reply |-> "none"]
        IN  IF ~IsDigit(arg)
            THEN /\ bind_event' = [event EXCEPT !.reply = "usage"]
                 /\ UNCHANGED <<bind_data, not_bind_vars>>
            ELSE IF returned_id.outcome = "ValueError"
            THEN /\ bind_event' = [event EXCEPT !.reply = "ValueError"]
                 /\ UNCHANGED <<bind_data, not_bind_vars>>
            ELSE /\ bind_data' =
                       SetItem(bind_data, parent_id,
                               PutUser(Get(bind_data, parent_id, <<>>),
                                       [user_id |-> user_id,
                                        steam_id |-> returned_id.text,
                                        nickname |-> <<>>]))
                 /\ bind_event' = [event EXCEPT !.reply = "bound"]
                 /\ UNCHANGED not_bind_vars

\* steam_unbind, lines 242-252
SteamUnbind ==
    \E parent_id \in Groups, user_id \in UserIds :
        LET event == [command |-> "steamunbind", parent_id |-> parent_id,
                      user_id |-> user_id, args |-> <<>>, reply |-> "none"]
        IN  IF IsBound(bind_data, parent_id, user_id)
            THEN /\ bind_data' =
                       SetItem(bind_data, parent_id,
                               DelUser(bind_data[parent_id], user_id))
                 /\ bind_event' = [event EXCEPT !.reply = "unbound"]
                 /\ UNCHANGED not_bind_vars
            ELSE /\ bind_event' = [event EXCEPT !.reply = "not bound"]
                 /\ UNCHANGED <<bind_data, not_bind_vars>>

\* steam_nickname, lines 381-398
SteamNickname ==
    \E parent_id \in Groups, user_id \in UserIds,
       args \in NicknameArguments :
        LET nickname == Strip(args)
            event == [command |-> "steamnickname", parent_id |-> parent_id,
                      user_id |-> user_id, args |-> args, reply |-> "none"]
        IN  IF nickname = <<>>
            THEN /\ bind_event' = [event EXCEPT !.reply = "usage"]
                 /\ UNCHANGED <<bind_data, not_bind_vars>>
            ELSE IF ~IsBound(bind_data, parent_id, user_id)
            THEN /\ bind_event' = [event EXCEPT !.reply = "not bound"]
                 /\ UNCHANGED <<bind_data, not_bind_vars>>
            ELSE /\ bind_data' =
                       SetItem(bind_data, parent_id,
                               PutUser(bind_data[parent_id],
                                       [UserEntry(bind_data[parent_id],
                                                  user_id)
                                        EXCEPT !.nickname = <<nickname>>]))
                 /\ bind_event' = [event EXCEPT !.reply = "nickname set"]
                 /\ UNCHANGED not_bind_vars

BindNext == SteamBind \/ SteamUnbind \/ SteamNickname

----------------------------------------------------------------------------
(* steam_enable, steam_disable and broadcast_steam_info.  The dict         *)
(* disable_parent_data is kept as the set of its keys, every value being   *)
(* True; parent_data as the set of the groups steamupdate has stored an    *)
(* avatar and a name for.                                                  *)

\* "CS", the name of a game, and "Al" and "Bo", the names of two players
GAME_NAME == <<67, 83>>
NAME_AL == <<65, 108>>
NAME_BO == <<66, 111>>

\* a del that empties the dict
WithoutKey_Clear(d, parent_id) == {}

\* line 336: del self.disable_parent_data[parent_id]
WithoutKey(d, parent_id) == d \ {parent_id}

\* line 344: self.disable_parent_data[parent_id] = True
WithKey(d, parent_id) == d \cup {parent_id}

\* player.get("gameextrainfo") as a condition: the key is there and its value
\* is not the empty str
HasGame(player) == player.gameextrainfo # <<>> /\ player.gameextrainfo[1] # <<>>

\* lines 186-191: a line for every player that has a game
MsgLines(plist) ==
    LET playing == SelectSeq(plist, HasGame)
    IN  [i \in 1..Len(playing) |->
            [personaname |-> playing[i].personaname,
             gameextrainfo |-> playing[i].gameextrainfo[1]]]

\* the lists of new players of a broadcast: players without the key
\* gameextrainfo, with an empty one, and in a game
BroadcastPlayers ==
    {<<>>,
     <<[personaname |-> NAME_AL, gameextrainfo |-> <<>>]>>,
     <<[personaname |-> NAME_AL, gameextrainfo |-> << <<>> >>]>>,
     <<[personaname |-> NAME_AL, gameextrainfo |-> <<GAME_NAME>>]>>,
     <<[personaname |-> NAME_AL, gameextrainfo |-> <<>>],
       [personaname |-> NAME_BO, gameextrainfo |-> <<GAME_NAME>>]>>}

NoBroadcast ==
    [handler |-> "none", parent_id |-> "g1", new_players |-> <<>>,
     chains |-> <<>>, with_image |-> FALSE, outcome |-> "none"]

\* lines 88-91: the dicts as loaded from their files
BroadcastInit ==
    /\ disable_parent_data \in SUBSET Groups
    /\ parent_data \in SUBSET Groups
    /\ steam_broadcast_type \in {"all", "part", "none"}
    /\ last_toggle = [g \in Groups |-> "none"]
    /\ broadcast_event = NoBroadcast

\* steam_enable, lines 331-338
SteamEnable ==
    \E parent_id \in Groups :
        /\ disable_parent_data' =
              IF parent_id \in disable_parent_data
              THEN WithoutKey(disable_parent_data, parent_id)
              ELSE disable_parent_data
        /\ last_toggle' = [last_toggle EXCEPT ![parent_id] = "steamenable"]
        /\ broadcast_event' =
              [NoBroadcast EXCEPT !.handler = "steam_enable",
                                  !.parent_id = parent_id,
                                  !.outcome = "replied"]
        /\ UNCHANGED <<parent_data, steam_broadcast_type, not_broadcast_vars>>

\* steam_disable, lines 340-346
SteamDisable ==
    \E parent_id \in Groups :
        /\ disable_parent_data' = WithKey(disable_parent_data, parent_id)
        /\ last_toggle' = [last_toggle EXCEPT ![parent_id] = "steamdisable"]
        /\ broadcast_event' =
              [NoBroadcast EXCEPT !.handler = "steam_disable",
                                  !.parent_id = parent_id,
                                  !.outcome = "replied"]
        /\ UNCHANGED <<parent_data, steam_broadcast_type, not_broadcast_vars>>

\* broadcast_steam_info(parent_id, old_players, new_players), lines 175-208:
\* it returns at line 183 ("disabled") or at line 193 ("nothing"), sends the
\* message ("sent"), or ends in the exception of PILImage.open, line 199,
\* which is given Path("") when the group has no avatar stored ("OSError")
BroadcastSteamInfo ==
    \E parent_id \in Groups, plist \in BroadcastPlayers :
        LET event == [NoBroadcast EXCEPT !.handler = "broadcast_steam_info",
                                         !.parent_id = parent_id,
                                         !.new_players = plist]
            msg_lines == MsgLines(plist)
        IN  /\ broadcast_event' =
                  IF parent_id \in disable_parent_data
                  THEN [event EXCEPT !.outcome = "disabled"]
                  ELSE IF msg_lines = <<>>
                  THEN [event EXCEPT !.outcome = "nothing"]
                  ELSE IF steam_broadcast_type \in {"all", "part"}
                  THEN IF parent_id \in parent_data
                       THEN [event EXCEPT !.chains = msg_lines,
                                          !.with_image = TRUE,
                                          !.outcome = "sent"]
                       ELSE [event EXCEPT !.outcome = "OSError"]
                  ELSE [event EXCEPT !.chains = msg_lines,
                                     !.outcome = "sent"]
            /\ UNCHANGED <<disable_parent_data, parent_data,
                           steam_broadcast_type, last_toggle,
                           not_broadcast_vars>>

BroadcastNext == SteamEnable \/ SteamDisable \/ BroadcastSteamInfo

----------------------------------------------------------------------------
(* schedule_update, update_steam_info and get_players_by_ids.  A response  *)
(* of the Steam API is the dict {"response": {"players": [...]}}, kept as  *)
(* a record; a value of a Python list carries its type, a str being equal  *)
(* to no dict.                                                             *)

\* two steam ids, as get_steam_id returns them
STEAM_ID_1 == Str(IntAdd(STEAM_ID_OFFSET, <<1>>))
STEAM_ID_2 == Str(IntAdd(STEAM_ID_OFFSET, <<2>>))

PyStr(text) == [type |-> "str", value |-> text]
PyDict(d) == [type |-> "dict", value |-> d]

\* x in ys, for a str x and a list ys
StrIn(x, ys) ==
    \E i \in 1..Len(ys) : ys[i].type = "str" /\ ys[i].value = x

\* {"response": {"players": plist}}
Response(plist) == [response |-> [players |-> plist]]

\* get_players_by_ids, lines 147-154, on the cache `info`
get_players_by_ids(info, ids) ==
    SelectSeq(Get(info, "players", <<>>),
              LAMBDA player : StrIn(player.steamid, ids))

\* line 168: list(self.bind_data.get(parent_id, {}).values())
ValuesOf(table) ==
    [i \in 1..Len(table) |->
        PyDict([steam_id |-> table[i].steam_id,
                nickname |-> table[i].nickname])]

\* line 140: list(self.bind_data.get(parent_id, {}).keys())
KeysOf(table) == [i \in 1..Len(table) |-> PyStr(table[i].user_id)]

\* lines 160-164: the steam ids of all groups, without repetitions
AllSteamIds(d) ==
    UNION {{d[g][i].steam_id : i \in 1..Len(d[g])} : g \in DOMAIN d}

\* the lists that hold every element of a set once
ListsOf(S) ==
    {l \in [1..Cardinality(S) -> S] : \A x \in S : \E i \in DOMAIN l : l[i] = x}

SchedEntry(user_id, id) ==
    [user_id |-> user_id, steam_id |-> id, nickname |-> <<>>]

\* the binding tables of the scheduler runs
SchedTables ==
    {[g \in {"g1"} |-> t] :
        t \in {<<>>,
                <<SchedEntry(<<97>>, STEAM_ID_1)>>,
                <<SchedEntry(<<97>>, STEAM_ID_2),
                  SchedEntry(<<98>>, STEAM_ID_1)>>}}
    \cup
    {[g \in Groups |-> IF g = "g1" THEN t ELSE <<SchedEntry(<<98>>, STEAM_ID_1)>>] :
        t \in {<<SchedEntry(<<97>>, STEAM_ID_1)>>,
                <<SchedEntry(<<97>>, STEAM_ID_2)>>}}

\* a player of a response, in a game or not
SchedPlayer(id, game) ==
    [steamid |-> id, personaname |-> NAME_AL, gameextrainfo |-> game]

\* what get_steam_users_info may return for a list of ids: no player (no
\* id, or every key failed), or a player for every id, each in a game or not
ResponsesFor(ids) ==
    {Response(<<>>)}
    \cup {Response([i \in 1..Len(ids) |-> SchedPlayer(ids[i], games[i])]) :
            games \in [1..Len(ids) -> {<<>>, <<GAME_NAME>>}]}

\* lines 88-89: the table and the cache as loaded from their files, the
\* cache being absent or a response saved by an earlier run
SchedInit ==
    /\ sched_pc = "update"
    /\ bind_data \in SchedTables
    /\ steam_info_data \in
          {EmptyDict,
           Response(<<SchedPlayer(STEAM_ID_1, <<>>)>>),
           Response(<<SchedPlayer(STEAM_ID_1, <<GAME_NAME>>),
                      SchedPlayer(STEAM_ID_2, <<>>)>>)}
    /\ all_steam_ids = <<>>
    /\ steam_response = EmptyDict
    /\ old_players_dict = EmptyDict
    /\ broadcasts = <<>>

\* update_steam_info, lines 160-165: up to the response of
\* get_steam_users_info; list(set(...)) has the ids in any order
UpdateSteamInfoFetch ==
    /\ sched_pc = "update"
    /\ all_steam_ids' \in ListsOf(AllSteamIds(bind_data))
    /\ steam_response' \in ResponsesFor(all_steam_ids')
    /\ sched_pc' = "fetched"
    /\ UNCHANGED <<bind_data, steam_info_data, old_players_dict, broadcasts,
                   not_sched_vars>>

\* update_steam_info, lines 166-173
UpdateSteamInfoStore ==
    /\ sched_pc = "fetched"
    /\ old_players_dict' =
          [parent_id \in DOMAIN bind_data |->
              get_players_by_ids(steam_info_data,
                                 ValuesOf(Get(bind_data, parent_id, <<>>)))]
    /\ steam_info_data' = steam_response
    /\ sched_pc' = "loop"
    /\ UNCHANGED <<bind_data, all_steam_ids, steam_response, broadcasts,
                   not_sched_vars>>

\* the groups the for loop of line 138 has not come to
GroupsLeft ==
    DOMAIN bind_data \ {broadcasts[i].parent_id : i \in 1..Len(broadcasts)}

\* schedule_update, lines 138-142: one iteration of the for loop; an
\* exception of broadcast_steam_info ends the loop at line 143
ScheduleUpdateLoop ==
    /\ sched_pc = "loop"
    /\ \E parent_id \in GroupsLeft, raises \in BOOLEAN :
          /\ broadcasts' =
                Append(broadcasts,
                       [parent_id |-> parent_id,
                        old_players |-> Get(old_players_dict, parent_id, <<>>),
                        new_players |->
                            get_players_by_ids(
                                steam_info_data,
                                KeysOf(Get(bind_data, parent_id, <<>>))),
                        raised |-> raises])
          /\ sched_pc' = IF raises THEN "sleep" ELSE "loop"
    /\ UNCHANGED <<bind_data, all_steam_ids, steam_response, steam_info_data,
                   old_players_dict, not_sched_vars>>

\* schedule_update, line 145: the loop is done
ScheduleUpdateSleep ==
    /\ sched_pc = "loop"
    /\ GroupsLeft = {}
    /\ sched_pc' = "sleep"
    /\ UNCHANGED <<bind_data, all_steam_ids, steam_response, steam_info_data,
                   old_players_dict, broadcasts, not_sched_vars>>

\* schedule_update, line 134: the next cycle
ScheduleUpdateWake ==
    /\ sched_pc = "sleep"
    /\ sched_pc' = "update"
    /\ all_steam_ids' = <<>>
    /\ steam_response' = EmptyDict
    /\ old_players_dict' = EmptyDict
    /\ broadcasts' = <<>>
    /\ UNCHANGED <<bind_data, steam_info_data, not_sched_vars>>

SchedNext ==
    \/ UpdateSteamInfoFetch
    \/ UpdateSteamInfoStore
    \/ ScheduleUpdateLoop
    \/ ScheduleUpdateSleep
    \/ ScheduleUpdateWake

----------------------------------------------------------------------------
(* steam_info, lines 254-300, up to the call of get_user_data *)

\* the binding tables of the steaminfo runs: no group, and the group "g1"
\* with no, one or two users, in either order
InfoTables ==
    {EmptyDict}
    \cup {[g \in {"g1"} |-> t] :
            t \in {<<>>,
                    <<SchedEntry(<<97>>, STEAM_ID_1)>>,
                    <<SchedEntry(<<97>>, STEAM_ID_1),
                      SchedEntry(<<98>>, STEAM_ID_2)>>,
                    <<SchedEntry(<<98>>, STEAM_ID_2),
                      SchedEntry(<<97>>, STEAM_ID_1)>>}}

\* the texts after the command: none, "a", " b ", "c", "1", the superscript
\* two, and a steam id
InfoArguments ==
    {<<>>, <<97>>, <<32, 98, 32>>, <<99>>, <<49>>, <<178>>, STEAM_ID_2}

InfoInit ==
    /\ info_pc = "command"
    /\ bind_data \in InfoTables
    /\ info_event \in [parent_id : Groups, user_id : UserIds,
                        message_str : InfoArguments]
    /\ steam_id = <<>>
    /\ info_reply = "none"

\* lines 260-265: the steam id of a digit argument
IdOfDigits(arg_text) ==
    IF ~IsDecimal(arg_text) THEN Raised("ValueError")
    ELSE IF IntLess(IntOf(arg_text), STEAM_ID_OFFSET)
         THEN Returned(Str(IntAdd(IntOf(arg_text), STEAM_ID_OFFSET)))
         ELSE Returned(arg_text)

\* lines 269-275: the for loop over the items of the group's table, which
\* breaks in its first iteration; its else clause runs when the table has
\* no item.  The result is the steam_id assigned, a reply, or the steam_id
\* left unassigned.
IdOfUser(table, arg_text) ==
    IF table = <<>> THEN [outcome |-> "replied", text |-> <<>>]
    ELSE IF table[1].user_id = arg_text THEN Returned(table[1].steam_id)
    ELSE [outcome |-> "unassigned", text |-> <<>>]

\* lines 277-283: the steam id of the sender
IdOfSender(d, parent_id, user_id) ==
    IF IsBound(d, parent_id, user_id)
    THEN Returned(UserEntry(d[parent_id], user_id).steam_id)
    ELSE [outcome |-> "replied", text |-> <<>>]

\* steam_info, lines 254-286: "render" stands for reaching line 286 with
\* steam_id assigned
SteamInfo ==
    /\ info_pc = "command"
    /\ LET arg_text == Strip(info_event.message_str)
           found ==
               IF arg_text # <<>>
               THEN IF IsDigit(arg_text)
                    THEN IdOfDigits(arg_text)
                    ELSE IdOfUser(Get(bind_data, info_event.parent_id, <<>>),
                                  arg_text)
               ELSE IdOfSender(bind_data, info_event.parent_id,
                               info_event.user_id)
       IN  /\ steam_id' = IF found.outcome = "str" THEN <<found.text>>
                          ELSE <<>>
           /\ info_pc' =
                 CASE found.outcome = "str" -> "render"
                   [] found.outcome = "replied" -> "replied"
                   [] found.outcome = "unassigned" -> "UnboundLocalError"
                   [] found.outcome = "ValueError" -> "ValueError"
           /\ info_reply' =
                 IF found.outcome # "replied" THEN "none"
                 ELSE IF arg_text # <<>> THEN "user not bound"
                 ELSE "bind first"
    /\ UNCHANGED <<bind_data, info_event, not_info_vars>>

InfoNext == SteamInfo

----------------------------------------------------------------------------
(* SteamInfoData.compare (data_source.py).  A player is a dict of which    *)
(* the keys steamid and gameextrainfo matter; gameextrainfo is a tuple of  *)
(* zero texts (no such key) or one.                                        *)

\* "Do", the name of another game
GAME_OTHER == <<68, 111>>

\* the players compared: two steam ids; no game, the empty str, or one of
\* two games
ComparedPlayers ==
    [steamid : {STEAM_ID_1, STEAM_ID_2},
     gameextrainfo : {<<>>, << <<>> >>, <<GAME_NAME>>, <<GAME_OTHER>>}]

PlayerLists == UNION {[1..n -> ComparedPlayers] : n \in 0..MaxCompared}

\* line 103: old_dict.get(sid), as a tuple of zero or one: of the old
\* players with one steamid the dict keeps the last
OldOf(olds, sid) ==
    LET at == {i \in 1..Len(olds) : olds[i].steamid = sid}
    IN  IF at = {} THEN <<>>
        ELSE <<olds[CHOOSE i \in at : \A j \in at : j <= i]>>

\* lines 107-108: new.get("gameextrainfo") as a condition
Truthy(game) == game # <<>> /\ game[1] # <<>>

\* a comparison that reports a start whenever the new player has a game
ChangeType_StartWhenPlaying(new_game, old_game) ==
    IF Truthy(new_game) THEN "start"
    ELSE IF Truthy(old_game) THEN "stop"
    ELSE "none"

\* lines 109-114: the type of the record, "none" when none is appended
ChangeType(new_game, old_game) ==
    IF Truthy(new_game) /\ ~Truthy(old_game) THEN "start"
    ELSE IF Truthy(old_game) /\ ~Truthy(new_game) THEN "stop"
    ELSE IF Truthy(new_game) /\ Truthy(old_game) /\ new_game # old_game
    THEN "change"
    ELSE "none"

\* lines 105-114: the record of one new player; a start has no old_player
ChangeOf(olds, new) ==
    LET old == OldOf(olds, new.steamid)
        old_game == IF old # <<>> THEN old[1].gameextrainfo ELSE <<>>
        type == ChangeType(new.gameextrainfo, old_game)
    IN  [type |-> type, player |-> new,
         old_player |-> IF type \in {"stop", "change"} THEN old ELSE <<>>]

\* compare(old_players, new_players), lines 87-116
Compare(olds, news) ==
    SelectSeq([i \in 1..Len(news) |-> ChangeOf(olds, news[i])],
              LAMBDA change : change.type # "none")

CompareInit ==
    /\ compare_pc = "call"
    /\ old_players \in PlayerLists
    /\ new_players \in PlayerLists
    /\ changes = <<>>

CallCompare ==
    /\ compare_pc = "call"
    /\ changes' = Compare(old_players, new_players)
    /\ compare_pc' = "returned"
    /\ UNCHANGED <<old_players, new_players, not_compare_vars>>

CompareNext == CallCompare

----------------------------------------------------------------------------
(* get_steam_users_info (steam.py).  The ids are numbered by their place   *)
(* in the list; a response with status 200 has a player for every id asked *)
(* for, and a player is told by its id.                                    *)

\* Python's steam_ids[i:i + n]
Slice(ids, i, n) ==
    SubSeq(ids, i + 1, IF i + n < Len(ids) THEN i + n ELSE Len(ids))

\* a slice that takes one id more
Batch_OneMore(ids, i) == Slice(ids, i, BATCH_SIZE + 1)

\* line 41: steam_ids[i:i + 100]
Batch(ids, i) == Slice(ids, i, BATCH_SIZE)

\* the ids of the call in progress: the list itself (line 45), or the batch
\* of the recursive call of line 41
CurrentIds ==
    IF Len(steam_ids) > BATCH_SIZE THEN Batch(steam_ids, batch_at)
    ELSE steam_ids

\* what a request may end in: the status 200, another status, or an
\* httpx.RequestError
RequestOutcomes == {"200", "403", "RequestError"}

RECURSIVE PlayersOf(_)
\* line 42: the players of the batch results, one after the other
PlayersOf(results) ==
    IF results = <<>> THEN <<>>
    ELSE Head(results).players \o PlayersOf(Tail(results))

FetchInit ==
    /\ fetch_pc = "call"
    /\ \E n \in 0..MaxIds : steam_ids = [k \in 1..n |-> k]
    /\ \E n \in 0..MaxKeys : steam_api_key = [k \in 1..n |-> k]
    /\ batch_at = 0
    /\ key_at = 0
    /\ requests = <<>>
    /\ batch_results = <<>>
    /\ fetch_result = <<>>

\* lines 34-45: the call, up to the loop over the keys
CallGetSteamUsersInfo ==
    /\ fetch_pc = "call"
    /\ fetch_pc' = IF Len(steam_ids) = 0 THEN "returned" ELSE "keys"
    /\ UNCHANGED <<steam_ids, steam_api_key, batch_at, key_at, requests,
                   batch_results, fetch_result, not_fetch_vars>>

\* the call for the current ids returns `plist`: to the caller (lines 54,
\* 60), or to the loop of line 40, which goes on to the next batch or
\* returns what it has collected (line 43)
ReturnPlayers(plist) ==
    LET results == Append(batch_results,
                          [batch_at |-> batch_at, steam_ids |-> CurrentIds,
                           players |-> plist])
        last == batch_at + BATCH_SIZE >= Len(steam_ids)
    IN  /\ batch_results' = results
        /\ key_at' = 0
        /\ batch_at' = IF last THEN batch_at ELSE batch_at + BATCH_SIZE
        /\ fetch_pc' = IF last THEN "returned" ELSE "keys"
        /\ fetch_result' = IF last THEN PlayersOf(results) ELSE fetch_result

\* lines 45-58: one iteration of the loop over the keys
TryApiKey ==
    /\ fetch_pc = "keys"
    /\ key_at < Len(steam_api_key)
    /\ \E outcome \in RequestOutcomes :
          /\ requests' = Append(requests,
                                [batch_at |-> batch_at,
                                 api_key |-> steam_api_key[key_at + 1],
                                 steam_ids |-> CurrentIds,
                                 outcome |-> outcome])
          /\ IF outcome = "200"
             THEN ReturnPlayers(CurrentIds)
             ELSE /\ key_at' = key_at + 1
                  /\ UNCHANGED <<batch_at, batch_results, fetch_pc,
                                 fetch_result>>
    /\ UNCHANGED <<steam_ids, steam_api_key, not_fetch_vars>>

\* lines 59-60: every key has failed
AllKeysFailed ==
    /\ fetch_pc = "keys"
    /\ key_at = Len(steam_api_key)
    /\ ReturnPlayers(<<>>)
    /\ UNCHANGED <<steam_ids, steam_api_key, requests, not_fetch_vars>>

FetchNext == CallGetSteamUsersInfo \/ TryApiKey \/ AllKeysFailed

----------------------------------------------------------------------------
(* The variables of the plugin in a run that does not use them *)

TableIdle == bind_data = EmptyDict

BindIdle == bind_event = NoCommand

BroadcastIdle ==
    /\ disable_parent_data = {}
    /\ parent_data = {}
    /\ steam_broadcast_type = "none"
    /\ last_toggle = [g \in Groups |-> "none"]
    /\ broadcast_event = NoBroadcast

SchedIdle ==
    /\ sched_pc = "idle"
    /\ all_steam_ids = <<>>
    /\ steam_response = EmptyDict
    /\ steam_info_data = EmptyDict
    /\ old_players_dict = EmptyDict
    /\ broadcasts = <<>>

InfoIdle ==
    /\ info_pc = "idle"
    /\ info_event = [parent_id |-> "g1", user_id |-> <<>>, message_str |-> <<>>]
    /\ steam_id = <<>>
    /\ info_reply = "none"

CompareIdle ==
    /\ compare_pc = "idle"
    /\ old_players = <<>>
    /\ new_players = <<>>
    /\ changes = <<>>

FetchIdle ==
    /\ fetch_pc = "idle"
    /\ steam_ids = <<>>
    /\ steam_api_key = <<>>
    /\ batch_at = 0
    /\ key_at = 0
    /\ requests = <<>>
    /\ batch_results = <<>>
    /\ fetch_result = <<>>

DrawIdle ==
    /\ RosterIdle /\ BioIdle /\ ColorIdle /\ CardIdle
    /\ BarIdle /\ RecolorIdle /\ PaletteIdle

PluginIdle ==
    /\ SteamIdIdle /\ TableIdle /\ BindIdle /\ BroadcastIdle
    /\ SchedIdle /\ InfoIdle /\ CompareIdle /\ FetchIdle

----------------------------------------------------------------------------
(* Specifications: one per function under study *)

RosterStart ==
    /\ RosterInit
    /\ BioIdle /\ ColorIdle /\ CardIdle
    /\ BarIdle /\ RecolorIdle /\ PaletteIdle /\ PluginIdle

FriendsStart ==
    /\ FriendsInit
    /\ BioIdle /\ ColorIdle /\ CardIdle
    /\ BarIdle /\ RecolorIdle /\ PaletteIdle /\ PluginIdle

SectionStart ==
    /\ SectionInit
    /\ BioIdle /\ ColorIdle /\ CardIdle
    /\ BarIdle /\ RecolorIdle /\ PaletteIdle /\ PluginIdle

BioStart ==
    /\ BioInit
    /\ RosterIdle /\ ColorIdle /\ CardIdle
    /\ BarIdle /\ RecolorIdle /\ PaletteIdle /\ PluginIdle

ColorStart ==
    /\ ColorInit
    /\ RosterIdle /\ BioIdle /\ CardIdle
    /\ BarIdle /\ RecolorIdle /\ PaletteIdle /\ PluginIdle

CardStart ==
    /\ CardInit
    /\ RosterIdle /\ BioIdle /\ ColorIdle
    /\ BarIdle /\ RecolorIdle /\ PaletteIdle /\ PluginIdle

BarStart ==
    /\ BarInit
    /\ RosterIdle /\ BioIdle /\ ColorIdle
    /\ CardIdle /\ RecolorIdle /\ PaletteIdle /\ PluginIdle

RecolorStart ==
    /\ RecolorInit
    /\ RosterIdle /\ BioIdle /\ ColorIdle
    /\ CardIdle /\ BarIdle /\ PaletteIdle /\ PluginIdle

PaletteStart ==
    /\ PaletteInit
    /\ RosterIdle /\ BioIdle /\ ColorIdle
    /\ CardIdle /\ BarIdle /\ RecolorIdle /\ PluginIdle

SteamIdStart ==
    /\ SteamIdInit
    /\ DrawIdle
    /\ TableIdle /\ BindIdle /\ BroadcastIdle /\ SchedIdle
    /\ InfoIdle /\ CompareIdle /\ FetchIdle

BindStart ==
    /\ BindInit
    /\ DrawIdle
    /\ SteamIdIdle /\ BroadcastIdle /\ SchedIdle
    /\ InfoIdle /\ CompareIdle /\ FetchIdle

BroadcastStart ==
    /\ BroadcastInit
    /\ DrawIdle
    /\ SteamIdIdle /\ TableIdle /\ BindIdle /\ SchedIdle
    /\ InfoIdle /\ CompareIdle /\ FetchIdle

SchedStart ==
    /\ SchedInit
    /\ DrawIdle
    /\ SteamIdIdle /\ BindIdle /\ BroadcastIdle
    /\ InfoIdle /\ CompareIdle /\ FetchIdle

InfoStart ==
    /\ InfoInit
    /\ DrawIdle
    /\ SteamIdIdle /\ BindIdle /\ BroadcastIdle
    /\ SchedIdle /\ CompareIdle /\ FetchIdle

CompareStart ==
    /\ CompareInit
    /\ DrawIdle
    /\ SteamIdIdle /\ TableIdle /\ BindIdle /\ BroadcastIdle
    /\ SchedIdle /\ InfoIdle /\ FetchIdle

FetchStart ==
    /\ FetchInit
    /\ DrawIdle
    /\ SteamIdIdle /\ TableIdle /\ BindIdle /\ BroadcastIdle
    /\ SchedIdle /\ InfoIdle /\ CompareIdle

\* one call of draw_friends_status
SpecRoster == RosterStart /\ [][RosterNext]_vars

\* one call of draw_friends_status with the records derived from players
SpecFriends == FriendsStart /\ [][FriendsNext]_vars

\* one call of a section renderer, on its own or from draw_friends_status
SpecSection == SectionStart /\ [][SectionNext]_vars

\* the biography loop of one call of draw_player_status
SpecBio == BioStart /\ [][BioNext]_vars

\* one call of get_brightest_and_darkest_color
SpecColor == ColorStart /\ [][ColorNext]_vars

\* the card and the title panel of one call of draw_player_status
SpecCard == CardStart /\ [][CardNext]_vars

\* one call of create_progress_bar or of a gradient constructor
SpecBar == BarStart /\ [][BarNext]_vars

\* one call of recolor_image
SpecRecolor == RecolorStart /\ [][RecolorNext]_vars

\* the palette of one call of draw_player_status
SpecPalette == PaletteStart /\ [][PaletteNext]_vars

\* one call of get_steam_id, and one on its result
SpecSteamId == SteamIdStart /\ [][SteamIdNext]_vars

\* any sequence of steambind, steamunbind and steamnickname commands
SpecBind == BindStart /\ [][BindNext]_vars

\* any sequence of steamenable and steamdisable commands and of broadcasts
SpecBroadcast == BroadcastStart /\ [][BroadcastNext]_vars

\* the cycles of schedule_update on a binding table that does not change
SpecSched == SchedStart /\ [][SchedNext]_vars

\* one steaminfo command
SpecInfo == InfoStart /\ [][InfoNext]_vars

\* one call of SteamInfoData.compare
SpecCompare == CompareStart /\ [][CompareNext]_vars

\* one call of get_steam_users_info
SpecFetch == FetchStart /\ [][FetchNext]_vars

----------------------------------------------------------------------------
(* Claims about the roster layout *)

\* how often record x occurs in list s
Occurrences(s, x) == Cardinality({k \in 1..Len(s) : s[k] = x})

\* the section lists a record of the input was placed in
SectionsOf(x) ==
    {k \in {"gaming", "online", "offline"} :
        \/ k = "gaming" /\ Occurrences(gaming_data, x) > 0
        \/ k = "online" /\ Occurrences(online_data, x) > 0
        \/ k = "offline" /\ Occurrences(offline_data, x) > 0}

\* C1: draw_friends_status places every record of its input in exactly one
\* of gaming_data, online_data and offline_data (once, and no list holds
\* anything else), and the section of a record depends on nothing but its
\* personastate and status text.
C1_TotalPartition ==
    roster_pc = "done" =>
        /\ \A i \in 1..Len(input) :
              Occurrences(gaming_data, input[i])
              + Occurrences(online_data, input[i])
              + Occurrences(offline_data, input[i]) = 1
        /\ Len(gaming_data) + Len(online_data) + Len(offline_data) = Len(input)
        /\ \A i, j \in 1..Len(input) :
              (input[i].personastate = input[j].personastate
               /\ input[i].status = input[j].status)
              => SectionsOf(input[i]) = SectionsOf(input[j])

C1_Witness ==
    /\ roster_pc = "done"
    /\ Len(input) = 3
    /\ Len(gaming_data) = 1
    /\ Len(online_data) = 1
    /\ online_data[1].personastate = 4
    /\ Len(offline_data) = 1

\* the generic label of a persona state, as the claim names it
GenericLabel(state) == IF state = 3 THEN LABEL_AWAY ELSE LABEL_ONLINE

\* C2: a record is in the Gaming section iff its personastate is Online(1),
\* Away(3) or Snooze(4) and its status text differs from the generic label of
\* that state; an Offline(0) record is in the Offline section.
C2_GamingIffActive ==
    roster_pc = "done" =>
        \A i \in 1..Len(input) :
            /\ Occurrences(gaming_data, input[i]) > 0
               <=> (/\ input[i].personastate \in {1, 3, 4}
                    /\ input[i].status # GenericLabel(input[i].personastate))
            /\ input[i].personastate = 0
               => Occurrences(offline_data, input[i]) > 0

C2_Witness ==
    /\ roster_pc = "done"
    /\ \E i, j, k \in 1..Len(input) :
          /\ input[i].personastate = 3 /\ input[i].status = LABEL_ONLINE
          /\ Occurrences(gaming_data, input[i]) > 0
          /\ input[j].personastate = 3 /\ input[j].status = LABEL_AWAY
          /\ Occurrences(gaming_data, input[j]) = 0
          /\ input[k].personastate = 0 /\ input[k].status = GAME_CS
          /\ Occurrences(offline_data, input[k]) > 0

\* the kinds of the non-empty sections, in the fixed order
NonEmptyKinds ==
    (IF gaming_data # <<>> THEN <<"gaming">> ELSE <<>>)
    \o (IF online_data # <<>> THEN <<"online">> ELSE <<>>)
    \o (IF offline_data # <<>> THEN <<"offline">> ELSE <<>>)

\* the bottom edge of section i on the roster canvas
SectionBottom(i) ==
    PARENT_STATUS_HEIGHT + FRIENDS_SEARCH_HEIGHT
    + Sum([j \in 1..i |-> status_images[j].height])

\* C3: the sections rendered are exactly the non-empty ones, in the order
\* Gaming, Online, Offline; there is one separator under every section but the
\* last, at that section's bottom edge, and no other: non-empty sections - 1
\* separators, none when fewer than two sections are non-empty.
C3_SectionsAndSeparators ==
    roster_pc = "done" =>
        /\ [i \in 1..Len(status_images) |-> status_images[i].kind]
           = NonEmptyKinds
        /\ Len(separators)
           = (IF Len(status_images) = 0 THEN 0 ELSE Len(status_images) - 1)
        /\ \A k \in 1..Len(separators) :
              /\ separators[k].after = k
              /\ separators[k].bottom = SectionBottom(k)
              /\ separators[k].top = SectionBottom(k) - 1

C3_Witness ==
    /\ roster_pc = "done"
    /\ Len(input) = 3
    /\ [i \in 1..Len(status_images) |-> status_images[i].kind]
       = <<"gaming", "online", "offline">>
    /\ Len(separators) = 2

\* the sort key of the Online section as the claim states it
ClaimedOnlineKey(state) == IF state = 3 THEN 7 ELSE state

\* C4: the members of the Online section are in non-decreasing order of
\* persona state with Away(3) counted as 7, whatever the input order.
C4_OnlineOrder ==
    roster_pc = "done" =>
        \A i, j \in 1..Len(online_data) :
            i < j => ClaimedOnlineKey(online_data[i].personastate)
                     <= ClaimedOnlineKey(online_data[j].personastate)

C4_Witness ==
    /\ roster_pc = "done"
    /\ \E i, j \in 1..Len(online_data) :
          /\ i < j
          /\ online_data[i].personastate = 4
          /\ online_data[j].personastate = 3
          /\ online_data[j].steamid < online_data[i].steamid

\* C5 (as stated): the canvas of a section with n members is exactly
\* 64 + (50 + 16) * n high, with no other term.
C5_HeightWithoutPadding ==
    roster_pc \in {"done", "section"} =>
        \A i \in 1..Len(status_images) :
            status_images[i].height = 64 + (50 + 16) * Len(status_images[i].rows)

\* C5 (amended): the canvas of a section with n >= 0 members is exactly
\* 64 + (50 + 16) * n + 16 high: the header, one row pitch per member and a
\* bottom padding of 16.
C5_HeightWithPadding ==
    roster_pc \in {"done", "section"} =>
        \A i \in 1..Len(status_images) :
            status_images[i].height
            = 64 + (50 + 16) * Len(status_images[i].rows) + 16

C5_Witness ==
    /\ roster_pc = "section"
    /\ status_images[1].kind = "online"
    /\ Len(status_images[1].rows) = 0
    /\ status_images[1].height = 80

\* C19: every record in the Online section carries the generic label of its
\* state as status text ("在线", or "离开" for Away), also when the records
\* are derived by simplize_steam_player_data: no member of the Online section
\* shows the name of a game.
C19_OnlineHasGenericLabel ==
    roster_pc = "done" =>
        \A i \in 1..Len(online_data) :
            online_data[i].status = GenericLabel(online_data[i].personastate)

\* C20: the members of the Gaming section are in ascending lexical order of
\* their status text, whatever the order of the input.
C20_GamingOrder ==
    roster_pc = "done" =>
        /\ \A i, j \in 1..Len(gaming_data) :
              i < j => ~StrLess(gaming_data[j].status, gaming_data[i].status)
        /\ gaming_data # <<>> =>
              /\ status_images[1].kind = "gaming"
              /\ [i \in 1..Len(gaming_data) |-> gaming_data[i].steamid]
                 = [i \in 1..Len(gaming_data) |->
                       status_images[1].rows[i].steamid]

\* three members in the Gaming section whose statuses all differ, given in
\* descending order
C20_Witness ==
    /\ roster_pc = "done"
    /\ Len(gaming_data) = 3
    /\ StrLess(gaming_data[1].status, gaming_data[2].status)
    /\ StrLess(gaming_data[2].status, gaming_data[3].status)
    /\ StrLess(input[3].status, input[2].status)
    /\ StrLess(input[2].status, input[1].status)

\* C21: the members of the Offline section appear in the order in which the
\* input list has them: no sort of draw_friends_status exchanges two Offline
\* records (the steamid of a record is its position in the input).
C21_OfflineKeepsInputOrder ==
    roster_pc = "done" =>
        /\ \A i, j \in 1..Len(offline_data) :
              i < j => offline_data[i].steamid < offline_data[j].steamid
        /\ \A i \in 1..Len(offline_data) :
              offline_data[i] = input[offline_data[i].steamid]
        /\ offline_data # <<>> =>
              LET section == status_images[Len(status_images)]
              IN  /\ section.kind = "offline"
                  /\ [i \in 1..Len(offline_data) |-> offline_data[i].steamid]
                     = [i \in 1..Len(offline_data) |->
                           section.rows[i].steamid]

\* two Offline records given in descending order of their status text, with
\* a record of another state between them
C21_Witness ==
    /\ roster_pc = "done"
    /\ Len(input) = 3
    /\ input[1].personastate = 0
    /\ input[2].personastate # 0
    /\ input[3].personastate = 0
    /\ StrLess(input[3].status, input[1].status)
    /\ Len(offline_data) = 2

\* C22: draw_friends_status leaves the caller's list as it was: after the
\* call the list holds the same records in the same order, no field changed.
C22_InputReadOnly ==
    roster_pc = "done" => data = input

----------------------------------------------------------------------------
(* Claims about the biography loop *)

\* C6: the biography loop draws at most 4 lines, and it has left the loop in
\* the very iteration that drew the 4th line: no character after the one
\* that closed the 4th line is taken, whatever the text.
C6_AtMostFourLines ==
    /\ Len(drawn) <= 4
    /\ Len(drawn) = 4 => (bio_pc = "break" /\ idx = drawn[4].closed_at)
    /\ bio_pc = "break" => Len(drawn) = 4

\* every character of a text longer than 4 closes a line, and the loop stops
\* after the 4th
C6_Witness ==
    /\ bio_pc = "break"
    /\ Len(player_description) = 6
    /\ idx = 4
    /\ \A k \in 1..4 : Len(drawn[k].text) = 1 /\ drawn[k].closed_at = k

\* the texts of the lines drawn, one after the other
RECURSIVE Concatenated(_)
Concatenated(ls) ==
    IF ls = <<>> THEN <<>> ELSE Head(ls).text \o Concatenated(Tail(ls))

\* the measured width of the first n characters of a text: the sum of the
\* lengths of its characters
MeasuredWidth(text, n) == Sum([k \in 1..n |-> GlyphLength(text[k])])

\* C30: the lines drawn, one after the other, are the characters taken so
\* far less the open line, so a prefix of the biography with nothing dropped,
\* doubled or exchanged; when the loop is left they are the whole biography
\* unless 4 lines were drawn with text remaining; and a line is closed at
\* the first of its characters that brings the summed width above 640, is a
\* newline, or is the last character of the biography.
C30_LinesArePrefix ==
    /\ Concatenated(drawn) \o line = SubSeq(player_description, 1, idx)
    /\ bio_pc \in {"break", "end"} =>
          /\ line = <<>>
          /\ \/ Concatenated(drawn) = player_description
             \/ Len(drawn) = BIO_LINES /\ idx < Len(player_description)
    /\ \A k \in 1..Len(drawn) :
          LET text == drawn[k].text
              closes(n) ==
                  \/ MeasuredWidth(text, n) > BIO_LINE_WIDTH
                  \/ text[n] = NEWLINE
                  \/ drawn[k].closed_at - Len(text) + n
                        = Len(player_description)
          IN  /\ text # <<>>
              /\ closes(Len(text))
              /\ \A n \in 1..(Len(text) - 1) : ~closes(n)

\* a biography of three lines, closed by the width, by a newline and by the
\* end of the text, and drawn whole
C30_Witness ==
    /\ bio_pc = "end"
    /\ player_description = <<105, 105, 105, 105, NEWLINE, 105>>
    /\ Len(drawn) = 3
    /\ drawn[1].text = <<105, 105, 105>>
    /\ drawn[2].text = <<105, NEWLINE>>
    /\ drawn[3].text = <<105>>

----------------------------------------------------------------------------
(* Claims about the palette extraction *)

\* C7: get_brightest_and_darkest_color terminates and returns two colours for
\* every non-empty image and every starting threshold: lowering the threshold
\* makes the retry condition false before the recursion runs out of stack,
\* so the call never ends in a RecursionError.
C7_AlwaysReturns == color_pc # "RecursionError"

\* the vivid pixels of the call that produced the result
VividAtResult == {image[i] : i \in {j \in 1..Len(image) :
                                       image[j].s > saturation_threshold}}

\* p is a pixel of S of the greatest (least) value
HasMaxValue(p, S) == p \in S /\ \A q \in S : q.v <= p.v
HasMinValue(p, S) == p \in S /\ \A q \in S : q.v >= p.v

\* C18: whatever the thresholds given and the depth at which the result is
\* produced, the brightest colour is that of the vivid pixel of maximum value
\* and the darkest that of the vivid pixel of minimum value, except that when
\* their hue distance is below the hue_difference_threshold the caller gave,
\* the darkest is the pixel of minimum value among the vivid pixels of
\* another hue than the brightest, if there is one.
C18_BrightestAndDarkest ==
    color_pc = "returned" =>
        LET others == {p \in VividAtResult : p.h # brightest_pixel.h}
            near == \E d \in VividAtResult :
                        /\ HasMinValue(d, VividAtResult)
                        /\ Abs(brightest_pixel.h - d.h)
                           < call_args.hue_difference_threshold
        IN /\ HasMaxValue(brightest_pixel, VividAtResult)
           /\ IF near /\ others # {}
              THEN HasMinValue(darkest_pixel, others)
              ELSE HasMinValue(darkest_pixel, VividAtResult)

----------------------------------------------------------------------------
(* Claims about the title blocks *)

\* the entry the last call of draw_game_info was given
CalledEntry ==
    IF game_info.outcome = "block"
    THEN player_games[Len(game_images)]
    ELSE player_games[Len(game_images) + 1]

\* C8: in an achievement strip at most 6 icons are drawn (inside the 860
\* wide strip), whatever the number of achievements, and whenever
\* completedCount > 6 the "+N" badge, with N = completedCount - 5, is in the
\* 6th slot (x = 802), inside the strip, and no icon is.
C8_SixSlotsAndBadge ==
    (game_info.outcome = "block" /\ game_info.strip) =>
        /\ Cardinality({i \in 1..Len(game_info.icons) :
                           game_info.icons[i] < 860}) <= 6
        /\ CalledEntry.completed > 6 =>
              /\ game_info.badge
                 = <<[x |-> 802, n |-> CalledEntry.completed - 5]>>
              /\ 802 + 48 <= 860
              /\ \A i \in 1..Len(game_info.icons) : game_info.icons[i] # 802

\* C9: with both counts present and totalCount = 0, draw_game_info returns
\* the title block, having passed progress 0 to the progress bar.
C9_ZeroTotalIsZeroProgress ==
    (/\ game_info.outcome # "none"
     /\ CalledEntry.completed # NONE
     /\ CalledEntry.total = 0) =>
        /\ game_info.outcome = "block"
        /\ Len(game_info.progress) = 1
        /\ game_info.progress[1].num = 0

\* C10: draw_game_info returns a block with the achievement strip, 184 high,
\* when both counts are present and a block without it, 110 high, when they
\* are absent; and the panel of draw_player_status is 106 plus, for every
\* title entry, the height of its block plus 26.
C10_StripIffCounts ==
    /\ game_info.outcome # "none" =>
          /\ game_info.outcome = "block"
          /\ game_info.strip
             <=> (CalledEntry.completed # NONE /\ CalledEntry.total # NONE)
          /\ game_info.height = (IF game_info.strip THEN 110 + 64 + 10 ELSE 110)
    /\ card_pc = "done" =>
          /\ Len(game_images) = Len(player_games)
          /\ bg_game.height
             = 106 + Sum([i \in 1..Len(game_images) |->
                            game_images[i].height + 26])

----------------------------------------------------------------------------
(* Claims about the progress bar and the gradients *)

\* a progress, clamped to [0, 1]
Clamped(progress) ==
    IF progress.num < 0 THEN [num |-> 0, den |-> 1]
    ELSE IF progress.num > progress.den THEN [num |-> 1, den |-> 1]
    ELSE progress

\* C11: create_progress_bar clamps progress to [0, 1]: for every progress,
\* those below 0 and above 1 included, the fill is as wide as the fill for the
\* clamped value, never wider than width - 6, and it ends before the border
\* of the bar (the column `width` of the canvas).
C11_ProgressClamped ==
    (bar_pc = "returned" /\ bar_call.fn = "create_progress_bar") =>
        /\ bar_result.fill.visible_width
           = CreateProgressBar(Clamped(bar_call.progress), bar_call.width,
                               bar_call.height).fill.visible_width
        /\ bar_result.fill.visible_width <= bar_call.width - 6
        /\ bar_result.fill.left + bar_result.fill.visible_width
           < bar_call.width

C13_GradientsRecover ==
    (/\ bar_pc \in {"returned", "ValueError"}
     /\ bar_call.fn \in {"create_vertical_gradient_rect",
                         "create_gradient_image"}
     /\ (bar_call.width <= 0 \/ bar_call.height <= 0)) =>
        /\ bar_result.outcome = "image"
        /\ bar_result.width = 1
        /\ bar_result.height = 1
        /\ bar_result.transparent

----------------------------------------------------------------------------
(* Claims about recolor_image *)

\* the shorter side of a box
ShorterSide(box) == IF box.width < box.height THEN box.width ELSE box.height

\* C14: the blob painted for each tile has a bounding box whose two sides
\* both equal the tile's shorter side, is centered on the tile's center (to
\* the pixel) and lies inside the tile, also when the tiles are not square.
C14_BlobInsideTile ==
    recolor_pc = "returned" =>
        \A k \in 1..Len(pieces) :
            /\ blobs[k].width = ShorterSide(pieces[k])
            /\ blobs[k].height = ShorterSide(pieces[k])
            /\ (2 * blobs[k].left + blobs[k].width)
               - (2 * pieces[k].left + pieces[k].width) \in -1..1
            /\ (2 * blobs[k].top + blobs[k].height)
               - (2 * pieces[k].top + pieces[k].height) \in -1..1
            /\ blobs[k].left >= pieces[k].left
            /\ blobs[k].top >= pieces[k].top
            /\ blobs[k].left + blobs[k].width
               <= pieces[k].left + pieces[k].width
            /\ blobs[k].top + blobs[k].height
               <= pieces[k].top + pieces[k].height

----------------------------------------------------------------------------
(* Claims about the palette *)

\* the adjusted values as the claim states them
ClaimedDarker(c) == IF c - 30 > 0 THEN c - 30 ELSE 0
ClaimedLighter(c) == IF c + 30 < 255 THEN c + 30 ELSE 255

\* C15: whatever the jitter draws, the two palette colours have R, G and B in
\* 0..255 and within 20 of the adjusted value (brightest: max(c - 30, 0),
\* darkest: min(c + 30, 255)), and both have alpha exactly 128.
C15_PaletteInRange ==
    palette_pc = "done" =>
        /\ \A i \in 1..3 :
              /\ brightest_color[i] \in 0..255
              /\ brightest_color[i] - ClaimedDarker(extracted.brightest[i])
                 \in -20..20
              /\ darkest_color[i] \in 0..255
              /\ darkest_color[i] - ClaimedLighter(extracted.darkest[i])
                 \in -20..20
        /\ brightest_color[4] = 128
        /\ darkest_color[4] = 128

----------------------------------------------------------------------------
(* Claims about the card *)

\* C16: for every size of the background photo, those narrower than 960
\* included, and any number of title entries, draw_player_status returns an
\* image of the size of the photo, and the card is pasted at the x
\* (W - 960) // 2 that was the left edge of the crop.
C16_ReturnsPhotoSize ==
    card_pc \in {"done", "ZeroDivisionError"} =>
        /\ card_pc = "done"
        /\ returned = player_bg
        /\ overlay_at.left = crop_box.left
        /\ overlay_at.left = (player_bg.width - 960) \div 2

\* C17: with zero title entries the panel is absent from the card: nothing
\* of non-zero height is pasted at the panel offset, no dark panel and no
\* achievement strip.
C17_NoPanelWithoutTitles ==
    (card_pc = "done" /\ player_games = <<>>) =>
        /\ bg_game.height = 0
        /\ bg_game.gradient_height = 0
        /\ pasted = <<>>

----------------------------------------------------------------------------
(* Claims about get_steam_id *)

\* C25: get_steam_id returns None for a text that is not a digit string; for
\* a digit string it returns the value plus STEAM_ID_OFFSET when the value is
\* below STEAM_ID_OFFSET and the text itself otherwise; so every str it
\* returns denotes a number that is at least STEAM_ID_OFFSET, and the
\* function applied to its result returns that result.
C25_SteamIdOrNone ==
    id_pc # "call" =>
        LET text == steam_id_or_steam_friends_code
        IN  /\ ~IsDigit(text) => id_result = None
            /\ IsDigit(text) =>
                  /\ id_result.outcome = "str"
                  /\ id_result.text =
                        IF IntLess(IntOf(text), STEAM_ID_OFFSET)
                        THEN Str(IntAdd(IntOf(text), STEAM_ID_OFFSET))
                        ELSE text
            /\ id_result.outcome = "str" =>
                  ~IntLess(IntOf(id_result.text), STEAM_ID_OFFSET)
            /\ id_pc = "again" => id_again = id_result

----------------------------------------------------------------------------
(* Claims about the binding table *)

\* the steam id bound to a user in a group, as a tuple of zero or one
Binding(d, parent_id, user_id) ==
    IF IsBound(d, parent_id, user_id)
    THEN <<UserEntry(d[parent_id], user_id).steam_id>>
    ELSE <<>>

\* the whole entry of a user in a group, as a tuple of zero or one
BoundEntry(d, parent_id, user_id) ==
    IF IsBound(d, parent_id, user_id)
    THEN <<UserEntry(d[parent_id], user_id)>>
    ELSE <<>>

\* C24: a command changes the binding of its sender in its group only:
\* after steambind with a digit argument the binding is get_steam_id of the
\* argument, after steamunbind there is none, steamnickname leaves the steam
\* id; a rejected command (steambind without a digit argument, steamnickname
\* with an empty nickname, steamnickname or steamunbind of an unbound user)
\* leaves the whole table as it was; and the entry of every other user and
\* of every other group stays as it was.
C24_OwnCommandsOnly ==
    [][LET event == bind_event'
           arg == Strip(event.args)
           was_bound == IsBound(bind_data, event.parent_id, event.user_id)
           now == Binding(bind_data', event.parent_id, event.user_id)
       IN  /\ (event.command = "steambind" /\ IsDigit(arg)) =>
                 /\ SteamIdOf[event.args].outcome = "str"
                 /\ now = <<SteamIdOf[event.args].text>>
           /\ event.command = "steamunbind" => now = <<>>
           /\ event.command = "steamnickname" =>
                 now = Binding(bind_data, event.parent_id, event.user_id)
           /\ (\/ event.command = "steambind" /\ ~IsDigit(arg)
               \/ event.command = "steamnickname" /\ arg = <<>>
               \/ event.command = "steamnickname" /\ ~was_bound
               \/ event.command = "steamunbind" /\ ~was_bound) =>
                 bind_data' = bind_data
           /\ \A parent_id \in Groups, user_id \in UserIds :
                 <<parent_id, user_id>> # <<event.parent_id, event.user_id>>
                 => BoundEntry(bind_data', parent_id, user_id)
                    = BoundEntry(bind_data, parent_id, user_id)]_vars

----------------------------------------------------------------------------
(* Claims about the disabled groups *)

\* C23: a group in which steamenable or steamdisable was handled is in the
\* disabled set exactly when the last of them was steamdisable; a broadcast
\* for a group in the disabled set returns at the check of line 182 and
\* sends nothing; a broadcast for a group whose last command was steamenable
\* passes that check, and sends a line for every player in a game when
\* there is one and the picture can be made (no picture is asked for, or
\* the group has an avatar stored); and no handler changes the status of a
\* group other than its own.
C23_DisabledIffLastDisable ==
    /\ [](/\ \A g \in Groups :
               last_toggle[g] # "none" =>
                   (g \in disable_parent_data
                    <=> last_toggle[g] = "steamdisable")
          /\ broadcast_event.handler = "broadcast_steam_info" =>
                LET g == broadcast_event.parent_id
                IN  /\ g \in disable_parent_data =>
                          /\ broadcast_event.outcome = "disabled"
                          /\ broadcast_event.chains = <<>>
                    /\ last_toggle[g] = "steamenable" =>
                          /\ broadcast_event.outcome # "disabled"
                          /\ (/\ \E i \in 1..Len(broadcast_event.new_players) :
                                    HasGame(broadcast_event.new_players[i])
                              /\ \/ steam_broadcast_type = "none"
                                 \/ g \in parent_data)
                             => /\ broadcast_event.outcome = "sent"
                                /\ broadcast_event.chains
                                   = MsgLines(broadcast_event.new_players))
    /\ [][\A g \in Groups :
             g # broadcast_event'.parent_id =>
                 (g \in disable_parent_data' <=> g \in disable_parent_data)]_vars

\* a message with a picture sent to a group that was loaded as disabled and
\* enabled since, while the other group is disabled by a command
C23_Witness ==
    /\ broadcast_event.handler = "broadcast_steam_info"
    /\ broadcast_event.parent_id = "g1"
    /\ broadcast_event.outcome = "sent"
    /\ broadcast_event.with_image
    /\ Len(broadcast_event.new_players) = 2
    /\ Len(broadcast_event.chains) = 1
    /\ last_toggle = [g1 |-> "steamenable", g2 |-> "steamdisable"]
    /\ disable_parent_data = {"g2"}

----------------------------------------------------------------------------
(* Claims about the scheduler *)

\* the players of a cached response whose steamid is bound in a group
BoundPlayers(info, parent_id) ==
    LET plist == Get(Get(info, "response", EmptyDict), "players", <<>>)
        table == Get(bind_data, parent_id, <<>>)
    IN  SelectSeq(plist,
                  LAMBDA player :
                      \E i \in 1..Len(table) :
                          table[i].steam_id = player.steamid)

\* C26: update_steam_info returns for every group, as its old players, the
\* players of the cache it found whose steamid is bound in the group; and
\* the new players of every broadcast of the cycle are the players of the
\* response just stored whose steamid is bound in the group, so that a bound
\* player who is in a game in that response is among them.
C26_BoundPlayersCompared ==
    /\ [][sched_pc = "fetched" =>
            \A parent_id \in DOMAIN bind_data :
                old_players_dict'[parent_id]
                = BoundPlayers(steam_info_data, parent_id)]_vars
    /\ [](\A i \in 1..Len(broadcasts) :
             /\ broadcasts[i].old_players
                = old_players_dict[broadcasts[i].parent_id]
             /\ broadcasts[i].new_players
                = BoundPlayers(steam_info_data, broadcasts[i].parent_id))

----------------------------------------------------------------------------
(* Claims about steaminfo *)

\* C27: steaminfo with an argument that is not a number uses the steam id
\* of the user of the group whose user id the argument is, wherever that
\* user stands in the table; when there is no such user it replies that the
\* user is not bound and renders nothing; it never comes to the render with
\* steam_id unassigned.
C27_NamedUserOrReply ==
    LET arg_text == Strip(info_event.message_str)
        table == Get(bind_data, info_event.parent_id, <<>>)
    IN  (info_pc # "command" /\ arg_text # <<>> /\ ~IsDigit(arg_text)) =>
            /\ info_pc # "UnboundLocalError"
            /\ HasUser(table, arg_text) =>
                  /\ info_pc = "render"
                  /\ steam_id = <<UserEntry(table, arg_text).steam_id>>
            /\ ~HasUser(table, arg_text) =>
                  /\ info_pc = "replied"
                  /\ info_reply = "user not bound"
                  /\ steam_id = <<>>

----------------------------------------------------------------------------
(* Claims about compare *)

\* whether a player has a game: the key is there and is not the empty str
Playing(player) ==
    player.gameextrainfo # <<>> /\ player.gameextrainfo[1] # <<>>

\* the type the record of the new player at i is to have, "none" for no
\* record; the old player of a steamid is the one the index of line 103
\* keeps
ClaimedType(i) ==
    LET new == new_players[i]
        old == OldOf(old_players, new.steamid)
        old_playing == old # <<>> /\ Playing(old[1])
    IN  CASE Playing(new) /\ ~old_playing -> "start"
          [] ~Playing(new) /\ old_playing -> "stop"
          [] Playing(new) /\ old_playing
             /\ new.gameextrainfo[1] # old[1].gameextrainfo[1] -> "change"
          [] OTHER -> "none"

\* C28: compare returns, in the order of the new list, one record for each
\* new player whose game started, stopped or changed against the old player
\* of the same steamid, with that type and that new player, and no record
\* for any other new player; a player of the old list alone gets none.
C28_OneRecordPerChange ==
    compare_pc = "returned" =>
        LET recorded == {i \in 1..Len(new_players) : ClaimedType(i) # "none"}
        IN  /\ Len(changes) = Cardinality(recorded)
            /\ \A i \in recorded :
                  LET k == Cardinality({j \in recorded : j <= i})
                  IN  /\ changes[k].type = ClaimedType(i)
                      /\ changes[k].player = new_players[i]

\* a change of game for the one new player, while the old list has a player
\* in a game who is not in the new list
C28_Witness ==
    /\ compare_pc = "returned"
    /\ Len(new_players) = 1
    /\ Len(changes) = 1
    /\ changes[1].type = "change"
    /\ changes[1].player = new_players[1]
    /\ \E i \in 1..Len(old_players) :
          /\ old_players[i].steamid # new_players[1].steamid
          /\ Playing(old_players[i])

----------------------------------------------------------------------------
(* Claims about get_steam_users_info *)

\* the requests made for the batch that begins at i, in order
RequestsFor(i) == SelectSeq(requests, LAMBDA request : request.batch_at = i)

\* C29: the batches are the consecutive slices of at most 100 ids of the
\* list, so that every id is in one batch and in one only; the requests of
\* a batch are made with the API keys in their order, none after a status
\* 200; a batch that got a 200 contributes the players of that response,
\* and a batch whose keys all failed, by a status or by a request error,
\* contributes no player; the call returns the contributions in order.
C29_BatchesAndKeys ==
    /\ \A k \in 1..Len(batch_results) :
          LET result == batch_results[k]
              asked == RequestsFor(result.batch_at)
          IN  /\ result.batch_at = BATCH_SIZE * (k - 1)
              /\ Len(result.steam_ids) \in 1..BATCH_SIZE
              /\ \A j \in 1..Len(result.steam_ids) :
                    result.steam_ids[j] = steam_ids[result.batch_at + j]
              /\ \/ k = Len(batch_results) /\ fetch_pc = "returned"
                 \/ Len(result.steam_ids) = BATCH_SIZE
              /\ Len(asked) <= Len(steam_api_key)
              /\ \A j \in 1..Len(asked) :
                    /\ asked[j].api_key = steam_api_key[j]
                    /\ asked[j].steam_ids = result.steam_ids
                    /\ j < Len(asked) => asked[j].outcome # "200"
              /\ IF asked # <<>> /\ asked[Len(asked)].outcome = "200"
                 THEN result.players = result.steam_ids
                 ELSE /\ Len(asked) = Len(steam_api_key)
                      /\ result.players = <<>>
    /\ fetch_pc = "returned" =>
          /\ Len(steam_ids)
             = Sum([k \in 1..Len(batch_results) |->
                      Len(batch_results[k].steam_ids)])
          /\ fetch_result = PlayersOf(batch_results)
          /\ Len(requests)
             = Sum([k \in 1..Len(batch_results) |->
                      Len(RequestsFor(batch_results[k].batch_at))])

\* 201 ids and two keys: the first batch is answered to the second key, the
\* keys of the second batch both fail, the third batch is the one last id
C29_Witness ==
    /\ fetch_pc = "returned"
    /\ Len(steam_ids) = 2 * BATCH_SIZE + 1
    /\ Len(batch_results) = 3
    /\ Len(RequestsFor(0)) = 2
    /\ requests[1].outcome = "RequestError"
    /\ requests[2].outcome = "200"
    /\ batch_results[2].players = <<>>
    /\ batch_results[3].steam_ids = <<2 * BATCH_SIZE + 1>>
    /\ Len(fetch_result) = BATCH_SIZE + 1

=============================================================================
